---- MODULE Spec2Model ----
(***************************************************************************)
(* dd-playwright-open-any-website-debug: the capture-and-classification    *)
(* pipeline of the three capture programs of the repository,               *)
(*   "p1"  src/unnamed/part_001 (lines 1-589): page.on('request') creates  *)
(*         the entry, page.on('response') fills it in, the narrative       *)
(*         inlines the request after a 403 DOCUMENT;                       *)
(*   "app" src/app.js (lines 1-635): context.on('response') creates the    *)
(*         entry, scope filter at capture, HAR augmentation before print;  *)
(*   "p2"  src/unnamed/part_002: context.on('response') creates the entry  *)
(*         and numbers it, scope filter at print.                          *)
(* Strings that the code inspects (hosts, Set-Cookie values) are sequences *)
(* of one-character strings or of tokens, so that endsWith, split and the  *)
(* regular expressions are computed, not assumed.                          *)
(***************************************************************************)
EXTENDS Integers, Sequences, FiniteSets, TLC

\* ------------------------------------------------------------------ bounds
\* Requests the browser issues in one run.
MaxReq == 2
\* Requests the browser issues in one run of the long capture (SpecLong).
MaxReqLong == 3
\* Milliseconds Date.now() may advance during the capture.
MaxClock == 1
\* Cookies joined in one Set-Cookie header value.
MaxCookies == 3

\* ------------------------------------------------- strings (host names)
\* String.prototype.endsWith
EndsWith(s, t) ==
  /\ Len(t) <= Len(s)
  /\ SubSeq(s, Len(s) - Len(t) + 1, Len(s)) = t

\* String.prototype.split(".")
RECURSIVE SplitDot(_)
SplitDot(s) ==
  IF \A i \in 1..Len(s) : s[i] # "."
  THEN <<s>>
  ELSE LET k == CHOOSE i \in 1..Len(s) :
                  s[i] = "." /\ \A j \in 1..(i - 1) : s[j] # "."
       IN  <<SubSeq(s, 1, k - 1)>> \o SplitDot(SubSeq(s, k + 1, Len(s)))

\* Array.prototype.join(".")
RECURSIVE JoinDot(_)
JoinDot(parts) ==
  IF Len(parts) = 0 THEN <<>>
  ELSE IF Len(parts) = 1 THEN parts[1]
  ELSE parts[1] \o <<".">> \o JoinDot(Tail(parts))

\* parts.slice(-2)
LastTwo(parts) ==
  IF Len(parts) <= 2 THEN parts ELSE SubSeq(parts, Len(parts) - 1, Len(parts))

\* ------------------------------------------- strings (header values)
\* A header value is a sequence of tokens: "=", ";", ",", " ", "LF" (a line
\* feed) and words.  String.prototype.toLowerCase on the words in use:
ToLower(t) ==
  CASE t = "Expires"  -> "expires"
    [] t = "Path"     -> "path"
    [] t = "DataDome" -> "datadome"
    [] OTHER          -> t

\* String.prototype.split(t) for a one-token separator
RECURSIVE SplitTok(_, _)
SplitTok(s, t) ==
  IF \A i \in 1..Len(s) : s[i] # t
  THEN <<s>>
  ELSE LET k == CHOOSE i \in 1..Len(s) :
                  s[i] = t /\ \A j \in 1..(i - 1) : s[j] # t
       IN  <<SubSeq(s, 1, k - 1)>> \o SplitTok(SubSeq(s, k + 1, Len(s)), t)

\* String.prototype.trim
RECURSIVE Trim(_)
Trim(s) ==
  IF Len(s) = 0 THEN s
  ELSE IF s[1] \in {" ", "LF"} THEN Trim(Tail(s))
  ELSE IF s[Len(s)] \in {" ", "LF"} THEN Trim(SubSeq(s, 1, Len(s) - 1))
  ELSE s

\* String.prototype.indexOf("="): position of the first "=", 0 when absent
IndexOfEq(s) ==
  IF \A i \in 1..Len(s) : s[i] # "=" THEN 0
  ELSE CHOOSE i \in 1..Len(s) : s[i] = "=" /\ \A j \in 1..(i - 1) : s[j] # "="

\* parts joined by sep
RECURSIVE JoinWith(_, _)
JoinWith(parts, sep) ==
  IF Len(parts) = 0 THEN <<>>
  ELSE IF Len(parts) = 1 THEN parts[1]
  ELSE parts[1] \o sep \o JoinWith(Tail(parts), sep)

\* /datadome=/i.test(v)
HasDatadomeEq(v) ==
  \E j \in 1..(Len(v) - 1) : ToLower(v[j]) \in {"datadome", "xdatadome"} /\ v[j + 1] = "="

\* The cookies a server sets.  An Expires date holds a comma.
DateValue   == <<"Wed", ",", " ", "21-Oct-2025">>
ExpiresAttr == <<";", " ", "Expires", "=">> \o DateValue
PathAttr    == <<";", " ", "Path", "=", "/">>
DdCookie(attrs)    == <<"datadome", "=", "xyz">> \o attrs
OtherCookie(attrs) == <<"other", "=", "1">> \o attrs
CookiePool ==
  { DdCookie(<<>>), DdCookie(ExpiresAttr), DdCookie(ExpiresAttr \o PathAttr),
    DdCookie(PathAttr \o ExpiresAttr),
    OtherCookie(<<>>), OtherCookie(ExpiresAttr) }
\* How several Set-Cookie values reach the program in one string: folded
\* with ", " as HTTP folds a repeated header, or with a line feed as
\* Playwright's headers() joins them.
CommaSep == <<",", " ">>
LfSep    == <<"LF">>

\* What the response object gives for "set-cookie": form "array" is one
\* value per cookie (headerValues, headersArray, an array in headers()),
\* form "string" the cookies joined by sep.
SetCookieHeader(cookies, sep, form) == [cookies |-> cookies, sep |-> sep, form |-> form]
NoSetCookie == SetCookieHeader(<<>>, LfSep, "string")

\* ------------------------------------------------------------ hosts, URLs
\* The host the user asked for, www.example.com written "w.e.c".
TargetHost  == <<"w", ".", "e", ".", "c">>
\* example.com
ApexHost    == <<"e", ".", "c">>
\* notexample.com: ends with "example.com" with no dot before it
LookHost    == <<"n", "e", ".", "c">>
\* a third party
OtherHost   == <<"x", ".", "o">>
\* geo.captcha-delivery.com written "g.d.c", captcha-delivery.com "d.c"
GeoHost     == <<"g", ".", "d", ".", "c">>
DeliveryDomain == <<"d", ".", "c">>

\* Extensions of EXTENSION_FILTER_RE / STATIC_EXT_RE, each one token.
StaticExt == {".css", ".png", ".js"}

PagePath    == <<"/", "p">>
AssetPath   == <<"/", "s", ".css">>
ImagePath   == <<"/", "i", ".png">>
ScriptPath  == <<"/", "c", ".js">>
CaptchaPath == <<"/", "captcha", "/">>
InterstitialPath == <<"/", "interstitial", "/">>
\* /p/captcha/: the segment is not at the start of the path
NestedCaptchaPath == <<"/", "p", "/", "captcha", "/">>

URL(h, p, q) == [host |-> h, path |-> p, query |-> q]

\* The exchanges a page may start: the request's URL, resourceType() and
\* method(), and the status() its response carries when it arrives.
\* clientId is its x-datadome-clientid request header ("" for none), cookie
\* its Cookie request header, setCookie the cookies its response sets.
\* fault is what goes wrong when the response event of the exchange is
\* processed: "request" when response.request() throws (closed target),
\* "headers" when the header accessors throw, "none" otherwise.
Req(u, rt, m, st) ==
  [url |-> u, rt |-> rt, method |-> m, status |-> st,
   clientId |-> "", cookie |-> <<>>, setCookie |-> <<>>, fault |-> "none"]
\* Cookie: sid=1; datadome=xyz
CookieWithDatadome == <<"sid", "=", "1", ";", " ", "datadome", "=", "xyz">>
Requests ==
  { [Req(URL(TargetHost, PagePath, <<>>),   "document", "GET",  403)
       EXCEPT !.setCookie = <<DdCookie(ExpiresAttr)>>],
    [Req(URL(TargetHost, PagePath, <<>>),   "document", "GET",  200)
       EXCEPT !.cookie = CookieWithDatadome],
    [Req(URL(ApexHost,   PagePath, <<>>),   "xhr",      "POST", 403)
       EXCEPT !.clientId = "cid"],
    Req(URL(LookHost,   PagePath, <<>>),    "fetch",    "GET",  200),
    Req(URL(OtherHost,  PagePath, <<>>),    "xhr",      "GET",  200),
    Req(URL(GeoHost,    CaptchaPath, <<>>), "document", "GET",  200),
    Req(URL(GeoHost,    ScriptPath, <<>>),  "script",   "GET",  200),
    Req(URL(GeoHost,    ImagePath, <<>>),   "fetch",    "POST", 200),
    Req(URL(TargetHost, AssetPath, <<>>),   "document", "GET",  200),
    [Req(URL(TargetHost, PagePath, <<>>),   "image",    "GET",  200)
       EXCEPT !.cookie = CookieWithDatadome] }

\* A URL string the URL constructor rejects: it has no host.
BadURL == URL(<<>>, PagePath, <<>>)
\* new URL(u) throws
Malformed(u) == Len(u.host) = 0

Faults == {"none", "request", "headers"}
\* The exchanges of a run in which event processing fails: a document that
\* sets the datadome cookie and an XHR that sends it, each with every fault,
\* and a document request whose URL is malformed.
FaultRequests ==
  { [Req(URL(TargetHost, PagePath, <<>>), "document", "GET", 403)
       EXCEPT !.setCookie = <<DdCookie(ExpiresAttr)>>, !.fault = f] : f \in Faults }
  \cup
  { [Req(URL(ApexHost, PagePath, <<>>), "xhr", "POST", 200)
       EXCEPT !.clientId = "cid", !.cookie = CookieWithDatadome, !.fault = f] : f \in Faults }
  \cup
  { Req(BadURL, "document", "GET", 200) }

\* response.status()
Statuses == {200, 403}
\* status: null
NoStatus == 0

Variants == {"p1", "app", "p2"}
\* scopeIdx: 0 same-domain, 1 cross-origin, 2 any origin
Scopes == 0..2

VARIABLES
  variant,        \* which program runs
  scopeIdx,       \* answer to "Network logging scope" (app, p2)
  phase,          \* "capture" | "closed" | "await_main" | "done"
  now,            \* Date.now()
  issued,         \* the requests the browser has issued, in order; index = identity
  responded,      \* identities whose response event has been dispatched
  captured,       \* the capture list
  byRequestId,    \* p1: request -> index in captured
  awaiting,       \* p1: response handlers suspended in `await safeHeadersArray`
  initialChain,   \* p1: DOCUMENT responses in the order their handlers resumed
  initialDocumentRequest, \* p1: first document request (0 = null)
  requestBodies,  \* p2: requests whose body preview was stored
  counter,        \* p2: let counter = 0
  inlinedAfter403,\* p1: Set of list indices printed inline
  main403Idx,     \* p1: let main403Idx = -1
  chainOut,       \* p1: lines of "Initial request & redirects"
  printed,        \* lines of "Full network capture"
  runtimeHeaders, \* app: the header accessors expose the cookie headers
  mainResponse,   \* p1: status of what page.goto resolved to (NoStatus = null)
  harEntries,     \* app: the entries read from the HAR file, with their used flag
  runs,           \* completed runs of the printing section that were followed by another
  firstOut,       \* what the first of two runs of the printing section printed
  setCookieIn,    \* the "set-cookie" value handed to a cookie extractor
  ddOut,          \* what the extractor returned
  mainNavResponse,\* second programs: index in the capture list (0 = null)
  prompt,         \* the URL prompt: inputs typed so far, its state, the URL returned
  wait,           \* the finish policy: mode, position in the wait, timers
  shutdown        \* the end of the run: position, what was closed, saved and read

vars == <<variant, scopeIdx, phase, now, issued, responded, captured, byRequestId,
          awaiting, initialChain, initialDocumentRequest, requestBodies, counter,
          inlinedAfter403, main403Idx, chainOut, printed, runtimeHeaders,
          mainResponse, harEntries, runs, firstOut, setCookieIn, ddOut,
          mainNavResponse, prompt, wait, shutdown>>


\* ------------------------------------------------ part_001: classification
UpperType(rt) ==
  CASE rt = "document" -> "DOCUMENT"
    [] rt = "xhr"      -> "XHR"
    [] rt = "fetch"    -> "FETCH"
    [] rt = "script"   -> "SCRIPT"
    [] rt = "image"    -> "IMAGE"
    [] OTHER           -> "OTHER"

\* EXTENSION_FILTER_RE.test(pathname): \.(ext)(\?|$) on a pathname, which holds no "?"
P1_isStaticAsset(u) ==
  Len(u.path) > 0 /\ u.path[Len(u.path)] \in StaticExt

\* tldts: info.domain || hostname, for hosts under a one-label public suffix
P1_toRegistrable(hostname) == JoinDot(LastTwo(SplitDot(hostname)))

P1_CHALLENGE_HOSTS == {DeliveryDomain, GeoHost}

P1_isOnTargetOrChallenge(host, targetDomain) ==
  IF Len(host) = 0 THEN FALSE
  ELSE LET reg == P1_toRegistrable(host)
       IN  \/ EndsWith(reg, targetDomain)
           \/ \E ch \in P1_CHALLENGE_HOSTS : EndsWith(reg, ch)

P1_targetDomain == P1_toRegistrable(TargetHost)

\* ------------------------------------------------ app.js: DataDome headers
\* raw.split(/,(?=[^;]+?=)/g): the comma at position i splits when an "="
\* follows it after one or more characters none of which is ";".
App_commaSplits(raw, i) ==
  /\ raw[i] = ","
  /\ \E k \in (i + 2)..Len(raw) :
       raw[k] = "=" /\ \A j \in (i + 1)..(k - 1) : raw[j] # ";"

RECURSIVE App_splitCookies(_)
App_splitCookies(raw) ==
  IF \A i \in 1..Len(raw) : ~App_commaSplits(raw, i)
  THEN <<raw>>
  ELSE LET k == CHOOSE i \in 1..Len(raw) :
                  App_commaSplits(raw, i) /\ \A j \in 1..(i - 1) : ~App_commaSplits(raw, j)
       IN  <<SubSeq(raw, 1, k - 1)>> \o App_splitCookies(SubSeq(raw, k + 1, Len(raw)))

\* getDataDomeSetCookies(response): the values that hold "datadome=" when
\* the response gives an array, the parts of the split string otherwise.
App_getDataDomeSetCookies(h) ==
  IF Len(h.cookies) = 0 THEN <<>>
  ELSE IF h.form = "array" THEN SelectSeq(h.cookies, HasDatadomeEq)
  ELSE LET raw   == JoinWith(h.cookies, h.sep)
           split == App_splitCookies(raw)
           parts == [i \in 1..Len(split) |-> Trim(split[i])]
       IN  SelectSeq(parts, HasDatadomeEq)

\* cookieHdr.match(/datadome=[^;]+/i): "datadome=" and what follows up to
\* the next ";" (<<>> for no match)
App_matchDatadome(cookieHdr) ==
  LET S == {j \in 1..(Len(cookieHdr) - 2) :
              /\ ToLower(cookieHdr[j]) \in {"datadome", "xdatadome"}
              /\ cookieHdr[j + 1] = "="
              /\ cookieHdr[j + 2] # ";"}
  IN  IF S = {} THEN <<>>
      ELSE LET j == CHOOSE x \in S : \A y \in S : x <= y
               e == CHOOSE x \in (j + 2)..Len(cookieHdr) :
                      /\ \A y \in (j + 2)..x : cookieHdr[y] # ";"
                      /\ x = Len(cookieHdr) \/ cookieHdr[x + 1] = ";"
           IN  <<IF cookieHdr[j] = "xdatadome" THEN "datadome" ELSE cookieHdr[j]>>
               \o SubSeq(cookieHdr, j + 1, e)

\* /(^|;\s*)datadome=/i.test(cookieHdr): a cookie named datadome at the start
\* of the header or after a ";"
App_hasDatadomeCookie(cookieHdr) ==
  \E j \in 1..(Len(cookieHdr) - 1) :
    /\ ToLower(cookieHdr[j]) = "datadome"
    /\ cookieHdr[j + 1] = "="
    /\ j = 1 \/ \E s \in 1..(j - 1) :
                  cookieHdr[s] = ";" /\ \A t \in (s + 1)..(j - 1) : cookieHdr[t] = " "

\* reqCookieDatadome of the response handler (<<>> for null)
App_reqCookieDatadome(cookieHdr) ==
  IF ~App_hasDatadomeCookie(cookieHdr) THEN <<>>
  ELSE IF App_matchDatadome(cookieHdr) # <<>> THEN App_matchDatadome(cookieHdr)
  ELSE <<"datadome", "=", "(present in Cookie header)">>

\* ---------------------------------------------------- app.js: classification
App_LOG_TYPES == {"document", "xhr", "fetch"}

\* dd.prod.captcha-delivery.com, dd.immoscout24.ch
DdProdHost == <<"p", ".", "d", ".", "c">>
ImmoHost   == <<"d", ".", "i", ".", "h">>
App_DD_HOSTS == {GeoHost, DdProdHost, ImmoHost}

App_hostOf(u) == u.host

\* STATIC_EXT_RE.test(url): \.(ext)(\?|#|$) on the whole URL string, that is
\* on path [ "?" query ]: the extension ends the path, or ends the query.
App_isStatic(u) ==
  \/ Len(u.path) > 0 /\ u.path[Len(u.path)] \in StaticExt
  \/ Len(u.query) > 0 /\ u.query[Len(u.query)] \in StaticExt

App_suffixBase(host) ==
  LET parts == SplitDot(host)
  IN  IF Len(parts) < 2 THEN host ELSE JoinDot(LastTwo(parts))

App_sameDomain(uHost, baseHost) ==
  uHost = baseHost \/ EndsWith(uHost, <<".">> \o baseHost)

App_baseHost == App_suffixBase(TargetHost)

\* Mutant of App_matchesScope: the DataDome hosts get no bypass.
App_matchesScope_noBypass(u, scope) ==
  LET h == App_hostOf(u)
  IN  IF scope = 2 THEN TRUE
      ELSE IF scope = 0 THEN App_sameDomain(h, App_baseHost)
      ELSE ~App_sameDomain(h, App_baseHost)

App_matchesScope(u, scope) ==
  LET h == App_hostOf(u)
  IN  IF h \in App_DD_HOSTS THEN TRUE
      ELSE IF scope = 2 THEN TRUE
      ELSE IF scope = 0 THEN App_sameDomain(h, App_baseHost)
      ELSE ~App_sameDomain(h, App_baseHost)

\* -------------------------------------------------- part_002: classification
P2_isDocXhrFetch(rt) == rt = "document" \/ rt = "xhr" \/ rt = "fetch"

\* Mutant of P2_isStaticAsset: the extension list lacks css.
P2_isStaticAsset_noCss(u) ==
  Len(u.path) > 0 /\ u.path[Len(u.path)] \in StaticExt \ {".css"}

\* STATIC_EXT_RE.test(u.pathname): \.(ext)$; for a URL that does not parse,
\* the test is made on the whole string, which ends with the query if any.
P2_isStaticAsset(u) ==
  IF Malformed(u) /\ Len(u.query) > 0
  THEN u.query[Len(u.query)] \in StaticExt
  ELSE Len(u.path) > 0 /\ u.path[Len(u.path)] \in StaticExt

P2_isGeoCaptchaDelivery(u) == u.host = GeoHost

P2_baseHost == TargetHost

P2_sameDomain(u, baseHost) == u.host = baseHost

\* A cross-origin test written as the negation of the same-domain test.
P2_crossOrigin_notSameDomain(u, baseHost) == ~P2_sameDomain(u, baseHost)

\* false when the URL does not parse
P2_crossOrigin(u, baseHost) == ~Malformed(u) /\ u.host # baseHost

P2_includeThis(rt, u) ==
  (P2_isDocXhrFetch(rt) /\ ~P2_isStaticAsset(u)) \/ P2_isGeoCaptchaDelivery(u)

\* The filter of the print step: captured.filter(item => ...)
P2_inScope(item, scope) ==
  IF P2_isGeoCaptchaDelivery(item.url) THEN TRUE
  ELSE IF scope = 0 THEN P2_sameDomain(item.url, P2_baseHost)
  ELSE IF scope = 1 THEN P2_crossOrigin(item.url, P2_baseHost)
  ELSE TRUE

\* ------------------------------------------------------------ initial state
\* The URL prompt has returned.
PromptDone == [typed |-> <<>>, state |-> "returned", url |-> <<>>]
\* The wait for the end of the capture has not begun.
WaitOff == [mode |-> "auto", stage |-> "off", elapsed |-> 0, idleAt |-> -1, timers |-> 0,
            inflight |-> 0, finishRequested |-> FALSE]

\* The end of the run has not begun: the context and the browser are open,
\* nothing was saved or read.
ShutdownOff ==
  [ pc            |-> "capture",
    contextOpen   |-> TRUE,
    contextCloses |-> 0,
    browserClosed |-> FALSE,
    cookies       |-> "none",
    cookiesWhileOpen |-> FALSE,
    har           |-> "none",
    harAfterClose |-> FALSE,
    lateAccess    |-> "none",
    narrative     |-> FALSE,
    topLevelError |-> "none" ]

\* Nothing captured, nothing printed.
EmptyRun ==
  /\ shutdown = ShutdownOff
  /\ now = 0
  /\ issued = <<>>
  /\ responded = {}
  /\ captured = <<>>
  /\ byRequestId = <<>>
  /\ awaiting = {}
  /\ initialChain = <<>>
  /\ initialDocumentRequest = 0
  /\ requestBodies = {}
  /\ counter = 0
  /\ inlinedAfter403 = {}
  /\ main403Idx = -1
  /\ chainOut = <<>>
  /\ printed = <<>>
  /\ mainResponse = NoStatus
  /\ harEntries = <<>>
  /\ runs = 0
  /\ firstOut = [chain |-> <<>>, capture |-> <<>>]
  /\ mainNavResponse = 0

Init ==
  /\ variant \in Variants
  /\ scopeIdx \in (IF variant = "p1" THEN {0} ELSE Scopes)
  /\ runtimeHeaders \in (IF variant = "app" THEN BOOLEAN ELSE {TRUE})
  /\ phase = "capture"
  /\ EmptyRun
  /\ setCookieIn = NoSetCookie
  /\ ddOut = <<>>
  /\ prompt = PromptDone
  /\ wait = WaitOff


narrative == <<inlinedAfter403, main403Idx, chainOut, printed>>
p1State == <<byRequestId, awaiting, initialChain, initialDocumentRequest>>
p2State == <<requestBodies, counter>>
config == <<variant, scopeIdx, runtimeHeaders, mainNavResponse, prompt, wait, shutdown>>
extraction == <<setCookieIn, ddOut>>
reruns == <<runs, firstOut>>

\* Identities of the requests whose response event has not been dispatched.
Unanswered == (1..Len(issued)) \ responded

\* --------------------------------------------------------- part_001: capture
\* The path begins with "/" seg.
PathBeginsWith(u, seg) == Len(u.path) >= 2 /\ u.path[1] = "/" /\ u.path[2] = seg

\* challengeTagForURL(u); "" stands for null.
P1_challengeTagForURL(u) ==
  IF Malformed(u) THEN ""
  ELSE IF PathBeginsWith(u, "interstitial") THEN "Device Check"
  ELSE IF PathBeginsWith(u, "captca") \/ PathBeginsWith(u, "captcha") THEN "CAPTCHA/BLOCK"
  ELSE ""

\* findDataDomeInCookieHeader(cookieHeader): the value of the first cookie
\* whose trimmed name is datadome, <<>> for null.
P1_findDataDomeInCookieHeader(cookieHeader) ==
  LET parts == SplitTok(cookieHeader, ";")
      name(p) == IF IndexOfEq(p) = 0 THEN Trim(p) ELSE Trim(SubSeq(p, 1, IndexOfEq(p) - 1))
      hit(p)  == Len(name(p)) = 1 /\ ToLower(name(p)[1]) = "datadome"
      S == {i \in 1..Len(parts) : hit(parts[i])}
  IN  IF Len(cookieHeader) = 0 \/ S = {} THEN <<>>
      ELSE LET p == parts[CHOOSE i \in S : \A j \in S : i <= j]
           IN  IF IndexOfEq(p) = 0 THEN <<>> ELSE SubSeq(p, IndexOfEq(p) + 1, Len(p))

\* The entry page.on('request') pushes.
P1_entry(id, r, ts) ==
  [ req          |-> id,
    ts           |-> ts,
    method       |-> r.method,
    url          |-> r.url,
    status       |-> NoStatus,
    resHeaders   |-> <<>>,
    resourceType |-> UpperType(r.rt),
    reqCookieHdr |-> r.cookie,
    tag          |-> P1_challengeTagForURL(r.url),
    isTarget     |-> P1_isOnTargetOrChallenge(r.url.host, P1_targetDomain),
    hostname     |-> r.url.host ]

\* Mutant of P1_stored: the static-asset test is forgotten.
P1_stored_noStaticTest(r) ==
  r.rt = "document" \/ r.rt = "xhr" \/ r.rt = "fetch"

\* Whether page.on('request') keeps the request.
P1_stored(r) ==
  /\ r.rt = "document" \/ r.rt = "xhr" \/ r.rt = "fetch"
  /\ ~P1_isStaticAsset(r.url)

\* page.on('request', ...); Date.now() has advanced by d since the last event.
P1_OnRequest(r, d) ==
  /\ variant = "p1"
  /\ phase = "capture"
  /\ now + d <= MaxClock
  /\ now' = now + d
  /\ issued' = Append(issued, r)
  /\ LET id == Len(issued) + 1
     IN  IF Malformed(r.url) \/ ~P1_stored(r)
         THEN UNCHANGED <<captured, byRequestId, initialDocumentRequest>>
         ELSE /\ byRequestId' = [k \in DOMAIN byRequestId \cup {id} |->
                                   IF k = id THEN Len(captured) + 1 ELSE byRequestId[k]]
              /\ captured' = Append(captured, P1_entry(id, r, now'))
              /\ initialDocumentRequest' =
                   IF r.rt = "document" /\ initialDocumentRequest = 0
                   THEN id ELSE initialDocumentRequest
  /\ UNCHANGED <<config, extraction, reruns, mainResponse, harEntries, phase, responded, awaiting, initialChain, p2State, narrative>>

\* safeHeadersArray(response): the Set-Cookie values of the response, [] when
\* headersArray() throws.
P1_safeHeadersArray(r) == IF r.fault = "headers" THEN <<>> ELSE r.setCookie

\* Mutant of P1_suspended: the entry is looked up with
\* captured.findIndex(e => e.url === url && e.method === method).
P1_suspended_firstMatch(id) ==
  LET match == {k \in DOMAIN captured :
                  captured[k].url = issued[id].url /\ captured[k].method = issued[id].method}
  IN  [req |-> id,
       idx |-> CHOOSE k \in match : \A j \in match : k <= j,
       status |-> issued[id].status,
       arr |-> P1_safeHeadersArray(issued[id])]

\* Mutant of P1_suspended: the entry is looked up by URL and method, the most
\* recently created one whose status is still unset.
P1_suspended_lastOpenMatch(id) ==
  LET open == {k \in DOMAIN captured :
                 /\ captured[k].url = issued[id].url
                 /\ captured[k].method = issued[id].method
                 /\ captured[k].status = NoStatus}
  IN  [req |-> id,
       idx |-> IF open = {} THEN byRequestId[id]
               ELSE CHOOSE k \in open : \A j \in open : j <= k,
       status |-> issued[id].status,
       arr |-> P1_safeHeadersArray(issued[id])]

\* A handler suspended in the await: the index it looked up, and what it
\* will write.
P1_suspended(id) ==
  [req |-> id, idx |-> byRequestId[id], status |-> issued[id].status,
   arr |-> P1_safeHeadersArray(issued[id])]

\* Mutant of P1_OnResponse: a response whose request is not in byRequestId
\* gets an entry of its own.
P1_OnResponse_createsOnMiss(id) ==
  /\ variant = "p1"
  /\ phase = "capture"
  /\ id \in Unanswered
  /\ responded' = responded \cup {id}
  /\ IF issued[id].fault = "request"
     THEN UNCHANGED <<awaiting, captured>>
     ELSE IF id \notin DOMAIN byRequestId
     THEN /\ captured' = Append(captured,
                                [P1_entry(id, issued[id], now) EXCEPT
                                   !.status = issued[id].status])
          /\ UNCHANGED awaiting
     ELSE /\ awaiting' = awaiting \cup {P1_suspended(id)}
          /\ UNCHANGED captured
  /\ UNCHANGED <<config, extraction, reruns, mainResponse, harEntries, phase, now, issued, byRequestId, initialChain,
                 initialDocumentRequest, p2State, narrative>>

\* page.on('response', ...) up to `await safeHeadersArray(response)`
\* A handler that copies the status onto the record before awaiting the
\* header array.
P1_OnResponse_writesStatusFirst(id) ==
  /\ variant = "p1"
  /\ phase = "capture"
  /\ id \in Unanswered
  /\ responded' = responded \cup {id}
  /\ IF issued[id].fault = "request" \/ id \notin DOMAIN byRequestId
     THEN UNCHANGED <<awaiting, captured>>
     ELSE /\ awaiting' = awaiting \cup {P1_suspended(id)}
          /\ captured' = [captured EXCEPT ![byRequestId[id]].status = issued[id].status]
  /\ UNCHANGED <<config, extraction, reruns, mainResponse, harEntries, phase, now, issued, byRequestId, initialChain,
                 initialDocumentRequest, p2State, narrative>>

P1_OnResponse(id) ==
  /\ variant = "p1"
  /\ phase = "capture"
  /\ id \in Unanswered
  /\ responded' = responded \cup {id}
  /\ IF issued[id].fault = "request" \/ id \notin DOMAIN byRequestId
     THEN UNCHANGED awaiting
     ELSE awaiting' = awaiting \cup {P1_suspended(id)}
  /\ UNCHANGED <<config, extraction, reruns, mainResponse, harEntries, phase, now, issued, captured, byRequestId, initialChain,
                 initialDocumentRequest, p2State, narrative>>

\* page.on('response', ...) after the await: the writes
P1_OnResponseResume(a) ==
  /\ variant = "p1"
  /\ phase # "done"
  /\ a \in awaiting
  /\ awaiting' = awaiting \ {a}
  /\ captured' = [captured EXCEPT ![a.idx].resHeaders = a.arr,
                                  ![a.idx].status = a.status]
  /\ initialChain' =
       IF issued[a.req].rt = "document"
       THEN Append(initialChain, [url |-> issued[a.req].url, status |-> a.status])
       ELSE initialChain
  /\ UNCHANGED <<config, extraction, reruns, mainResponse, harEntries, phase, now, issued, responded, byRequestId,
                 initialDocumentRequest, p2State, narrative>>

\* ------------------------------------------------------------ app.js: capture
\* app.js registers no request handler: the browser issues the request.
App_Request(r) ==
  /\ variant = "app"
  /\ phase = "capture"
  /\ issued' = Append(issued, r)
  /\ UNCHANGED <<config, extraction, reruns, mainResponse, harEntries, phase, now, responded, captured, p1State, p2State, narrative>>

\* Mutant of App_logged: the LOG_TYPES test is forgotten.
App_logged_anyType(r, scope) ==
  /\ ~App_isStatic(r.url)
  /\ App_matchesScope(r.url, scope)

\* Whether context.on("response") keeps the response.
App_logged(r, scope) ==
  /\ r.rt \in App_LOG_TYPES
  /\ ~App_isStatic(r.url)
  /\ App_matchesScope(r.url, scope)

\* The entry context.on("response") pushes (req: the identity of the exchange,
\* kept to name the entry; the code stores none).  req.headers() and
\* response.headers() hold the cookie headers only when the runtime exposes
\* them; "" and <<>> stand for null and [].
\* classifyDD(urlStr) of the first program; "" stands for null.
App_classifyDD(u) ==
  IF Malformed(u) \/ u.host # GeoHost THEN ""
  ELSE IF PathBeginsWith(u, "captcha") THEN "CAPTCHA/BLOCK"
  ELSE IF PathBeginsWith(u, "interstitial") THEN "Device Check"
  ELSE "Challenge"

App_entry(id, r, st, exposed) ==
  [ req     |-> id,
    url     |-> r.url,
    method  |-> r.method,
    status  |-> st,
    type    |-> r.rt,
    ddLabel |-> App_classifyDD(r.url),
    ddClientId          |-> r.clientId,
    reqCookieDatadome   |-> IF exposed THEN App_reqCookieDatadome(r.cookie) ELSE <<>>,
    ddSetCookiesRuntime |->
      IF exposed
      THEN App_getDataDomeSetCookies(SetCookieHeader(r.setCookie, LfSep, "string"))
      ELSE <<>>,
    geoHost |-> (App_hostOf(r.url) = GeoHost) ]

\* context.on("response", ...)
App_OnResponse(id) ==
  /\ variant = "app"
  /\ phase = "capture"
  /\ id \in Unanswered
  /\ responded' = responded \cup {id}
  /\ captured' = IF issued[id].fault # "request" /\ App_logged(issued[id], scopeIdx)
                 THEN Append(captured,
                             App_entry(id, issued[id], issued[id].status,
                                       runtimeHeaders /\ issued[id].fault # "headers"))
                 ELSE captured
  /\ UNCHANGED <<config, extraction, reruns, mainResponse, harEntries, phase, now, issued, p1State, p2State, narrative>>

\* ---------------------------------------------------------- part_002: capture
\* context.on('request', ...): the body preview of a request that has one
\* (a POST carries a body, a GET none).
P2_OnRequest(r) ==
  /\ variant = "p2"
  /\ phase = "capture"
  /\ issued' = Append(issued, r)
  /\ requestBodies' =
       IF /\ P2_isDocXhrFetch(r.rt) \/ P2_isGeoCaptchaDelivery(r.url)
          /\ r.method \in {"POST", "PUT", "PATCH", "DELETE", "OPTIONS"}
       THEN requestBodies \cup {Len(issued) + 1}
       ELSE requestBodies
  /\ UNCHANGED <<config, extraction, reruns, mainResponse, harEntries, phase, now, responded, captured, p1State, counter, narrative>>

\* getDataDomeSetCookiesFromHeadersArray(headersArray): the Set-Cookie
\* values that start with "datadome=", in header order.
P2_getDataDomeSetCookiesFromHeadersArray(values) ==
  SelectSeq(values, LAMBDA v : Len(v) >= 2 /\ ToLower(v[1]) = "datadome" /\ v[2] = "=")

\* getDataDomeCookieFromReq: /(?:^|;\s*)datadome=([^;]+)/i on the Cookie
\* header, given back as "datadome=" and the value (<<>> for null).
P2_getDataDomeCookieFromReq(cookieHdr) ==
  LET after(j) == j = 1 \/ \E s \in 1..(j - 1) :
                     cookieHdr[s] = ";" /\ \A t \in (s + 1)..(j - 1) : cookieHdr[t] = " "
      S == {j \in 1..(Len(cookieHdr) - 2) :
              /\ ToLower(cookieHdr[j]) = "datadome"
              /\ cookieHdr[j + 1] = "="
              /\ cookieHdr[j + 2] # ";"
              /\ after(j)}
  IN  IF S = {} THEN <<>>
      ELSE LET j == CHOOSE x \in S : \A y \in S : x <= y
               e == CHOOSE x \in (j + 2)..Len(cookieHdr) :
                      /\ \A y \in (j + 2)..x : cookieHdr[y] # ";"
                      /\ x = Len(cookieHdr) \/ cookieHdr[x + 1] = ";"
           IN  <<"datadome", "=">> \o SubSeq(cookieHdr, j + 2, e)

\* The snapshot context.on('response') pushes; safeHeadersArrayFromResponse
\* and safeRequestHeaders give [] and {} when the accessors throw.
\* geoType of the response handler: geoLabel(urlStr) on
\* geo.captcha-delivery.com, null ("") elsewhere.
P2_geoLabel(u) ==
  IF ~P2_isGeoCaptchaDelivery(u) THEN ""
  ELSE IF PathBeginsWith(u, "captcha") THEN "CAPTCHA/BLOCK"
  ELSE IF PathBeginsWith(u, "interstitial") THEN "Device Check"
  ELSE "Challenge"

P2_entry(id, idx, r, st, bodies) ==
  [ req            |-> id,
    idx            |-> idx,
    rt             |-> r.rt,
    geoType        |-> P2_geoLabel(r.url),
    method         |-> r.method,
    url            |-> r.url,
    status         |-> st,
    ddReqCookie    |-> IF r.fault = "headers" THEN <<>>
                       ELSE P2_getDataDomeCookieFromReq(r.cookie),
    ddClientId     |-> IF r.fault = "headers" THEN "" ELSE r.clientId,
    ddSetCookies   |-> IF r.fault = "headers" THEN <<>>
                       ELSE P2_getDataDomeSetCookiesFromHeadersArray(r.setCookie),
    reqBodyPreview |-> (id \in bodies) ]

\* Mutant of P2_OnResponse: the counter advances before response.request()
\* is called, so that a dropped event uses up a number.
P2_OnResponse_countsDropped(id) ==
  /\ variant = "p2"
  /\ phase = "capture"
  /\ id \in Unanswered
  /\ responded' = responded \cup {id}
  /\ counter' = counter + 1
  /\ IF issued[id].fault # "request" /\ P2_includeThis(issued[id].rt, issued[id].url)
     THEN captured' = Append(captured,
                             P2_entry(id, counter + 1, issued[id], issued[id].status,
                                      requestBodies))
     ELSE UNCHANGED captured
  /\ UNCHANGED <<config, extraction, reruns, mainResponse, harEntries, phase, now, issued, p1State, requestBodies, narrative>>

\* context.on('response', ...)
P2_OnResponse(id) ==
  /\ variant = "p2"
  /\ phase = "capture"
  /\ id \in Unanswered
  /\ responded' = responded \cup {id}
  /\ IF issued[id].fault # "request" /\ P2_includeThis(issued[id].rt, issued[id].url)
     THEN /\ counter' = counter + 1
          /\ captured' = Append(captured,
                                P2_entry(id, counter + 1, issued[id], issued[id].status,
                                        requestBodies))
     ELSE UNCHANGED <<counter, captured>>
  /\ UNCHANGED <<config, extraction, reruns, mainResponse, harEntries, phase, now, issued, p1State, requestBodies, narrative>>

\* ------------------------------------------------------------ end of capture
\* What mainResponse.status() can be: page.goto resolves to the response of
\* the main navigation (a document exchange of the target that was answered),
\* or mainResponse stays null when page.goto threw.
P1_mainResponses ==
  {NoStatus} \cup {issued[i].status : i \in {j \in responded :
                      issued[j].rt = "document" /\ issued[j].url.host = TargetHost}}

\* context.close(): no request or response event is dispatched after it.
\* page.goto has settled by then: mr is what part_001 holds in mainResponse.
CloseContext(mr) ==
  /\ phase = "capture"
  /\ phase' = "closed"
  /\ mr \in (IF variant = "p1" THEN P1_mainResponses ELSE {NoStatus})
  /\ mainResponse' = mr
  /\ UNCHANGED <<config, extraction, reruns, harEntries, now, issued, responded,
                 captured, p1State, p2State, narrative>>

\* ------------------------------------------------------ part_001: narrative
\* URL the user entered, what page.goto(url) asks for.
TargetURL == URL(TargetHost, PagePath, <<>>)

\* Mutant of InsertByTs: an unstable sort that puts an entry before the
\* entries of equal ts.
InsertByTs_tiesFirst(sorted, e) ==
  LET k == Cardinality({i \in 1..Len(sorted) : sorted[i].ts < e.ts})
  IN  SubSeq(sorted, 1, k) \o <<e>> \o SubSeq(sorted, k + 1, Len(sorted))

\* Array.prototype.sort((a, b) => a.ts - b.ts): stable, ascending ts.
InsertByTs(sorted, e) ==
  LET k == Cardinality({i \in 1..Len(sorted) : sorted[i].ts <= e.ts})
  IN  SubSeq(sorted, 1, k) \o <<e>> \o SubSeq(sorted, k + 1, Len(sorted))

RECURSIVE SortByTs(_)
SortByTs(s) ==
  IF Len(s) = 0 THEN <<>>
  ELSE InsertByTs(SortByTs(SubSeq(s, 1, Len(s) - 1)), s[Len(s)])

P1_listed(e) ==
  e.isTarget /\ e.resourceType \in {"DOCUMENT", "XHR", "FETCH"}

\* const list = captured.filter(...).sort(...)
P1_list(cap) == SortByTs(SelectSeq(cap, P1_listed))

\* Mutant of P1_idxToNext: only a next item on a challenge host is inlined.
P1_idxToNext_challengeOnly(list) ==
  {i \in 1..Len(list) :
     /\ list[i].status = 403 /\ list[i].resourceType = "DOCUMENT" /\ i + 1 <= Len(list)
     /\ list[i + 1].hostname \in P1_CHALLENGE_HOSTS}

\* Keys of idxToNext: the 403 DOCUMENTs of the list that have a next item.
P1_idxToNext(list) ==
  {i \in 1..Len(list) :
     list[i].status = 403 /\ list[i].resourceType = "DOCUMENT" /\ i + 1 <= Len(list)}

\* inlinedAfter403 after the loop that builds idxToNext.
P1_inlined(list, inl) == inl \cup {i + 1 : i \in P1_idxToNext(list)}

P1_row(e, n) ==
  [kind |-> "row", no |-> n, req |-> e.req,
   label |-> IF e.tag # "" THEN e.tag ELSE e.resourceType,
   method |-> e.method, url |-> e.url, status |-> e.status,
   reqCookie |-> P1_findDataDomeInCookieHeader(e.reqCookieHdr)]

P1_inlineLine(e, n) ==
  [kind |-> "inline", under |-> e.req, req |-> n.req,
   label |-> IF n.tag # "" THEN n.tag ELSE n.resourceType,
   method |-> n.method, url |-> n.url, status |-> n.status,
   reqCookie |-> P1_findDataDomeInCookieHeader(n.reqCookieHdr)]

\* The print loop of "Full network capture", from list index i with `counter` c.
RECURSIVE P1_rows(_, _, _, _, _)
P1_rows(list, inl, next, i, c) ==
  IF i > Len(list) THEN <<>>
  ELSE IF i \in inl THEN P1_rows(list, inl, next, i + 1, c)
  ELSE LET e == list[i]
           sub == IF e.status = 403 /\ e.resourceType = "DOCUMENT" /\ i \in next
                  THEN <<P1_inlineLine(e, list[i + 1])>>
                  ELSE <<>>
       IN  <<P1_row(e, c + 1)>> \o sub \o P1_rows(list, inl, next, i + 1, c + 1)

\* Lines of "Full network capture" for a capture list and the inlinedAfter403
\* set the run starts with.
P1_captureLines(cap, inl) ==
  LET list == P1_list(cap)
  IN  P1_rows(list, P1_inlined(list, inl), P1_idxToNext(list), 1, 0)

\* captured.findIndex(e => DOCUMENT && e.url === url && e.status === 403)
P1_findIndex403(cap, u) ==
  LET S == {k \in 1..Len(cap) :
              cap[k].resourceType = "DOCUMENT" /\ cap[k].url = u /\ cap[k].status = 403}
  IN  IF S = {} THEN -1 ELSE (CHOOSE k \in S : \A j \in S : k <= j) - 1

\* main403Idx after the redirect loop, from chain index i.
RECURSIVE P1_main403(_, _, _, _)
P1_main403(chain, i, m, cap) ==
  IF i > Len(chain) THEN m
  ELSE P1_main403(chain, i + 1,
                  IF chain[i].status = 403 /\ m = -1
                  THEN P1_findIndex403(cap, chain[i].url) ELSE m,
                  cap)

\* Lines of "Initial request & redirects"; mr is mainResponse.status(), NoStatus
\* when page.goto failed.
P1_chainLines(chain, mr) ==
  IF Len(chain) = 0 /\ mr # NoStatus
  THEN <<[kind |-> "requested", url |-> TargetURL, status |-> mr]>>
  ELSE IF Len(chain) > 0
  THEN [i \in 1..Len(chain) |->
          [kind |-> IF i = 1 THEN "requested" ELSE "redirect",
           url |-> chain[i].url, status |-> chain[i].status]]
  ELSE <<[kind |-> "none"]>>

\* The printing section up to "Build a filtered, ordered list". With no
\* DOCUMENT response and a main response it suspends in
\* `await safeHeadersArray(mainResponse)`; otherwise the capture section
\* follows in the same step.
P1_Print ==
  /\ variant = "p1"
  /\ phase = "closed"
  /\ chainOut' = P1_chainLines(initialChain, mainResponse)
  /\ main403Idx' = P1_main403(initialChain, 2, main403Idx, captured)
  /\ IF Len(initialChain) = 0 /\ mainResponse # NoStatus
     THEN /\ phase' = "await_main"
          /\ UNCHANGED <<inlinedAfter403, printed>>
     ELSE /\ phase' = "done"
          /\ inlinedAfter403' = P1_inlined(P1_list(captured), inlinedAfter403)
          /\ printed' = P1_captureLines(captured, inlinedAfter403)
  /\ UNCHANGED <<config, extraction, reruns, mainResponse, harEntries, now, issued, responded, captured, p1State, p2State>>

\* The capture section after the await of the fallback branch.
P1_PrintCapture ==
  /\ variant = "p1"
  /\ phase = "await_main"
  /\ phase' = "done"
  /\ inlinedAfter403' = P1_inlined(P1_list(captured), inlinedAfter403)
  /\ printed' = P1_captureLines(captured, inlinedAfter403)
  /\ UNCHANGED <<config, extraction, reruns, mainResponse, harEntries, now, issued, responded, captured, p1State, p2State,
                 main403Idx, chainOut>>

\* --------------------------------------------------------- app.js: narrative
\* The HAR file the closed context has flushed: one entry per request the
\* browser issued, in request order; an unanswered request has response
\* status -1 and no response headers.
HarFile ==
  [i \in 1..Len(issued) |->
     [ reqUrl     |-> issued[i].url,
       reqMethod  |-> issued[i].method,
       respStatus |-> IF i \in responded THEN issued[i].status ELSE -1,
       clientId   |-> issued[i].clientId,
       cookie     |-> issued[i].cookie,
       setCookie  |-> IF i \in responded THEN issued[i].setCookie ELSE <<>> ]]

\* Mutant of App_readHar: the entries are read once and kept, used flags included.
App_readHar_keepsEntries(file) ==
  IF Len(harEntries) > 0 THEN harEntries
  ELSE [i \in 1..Len(file) |-> [idx |-> i, e |-> file[i], used |-> FALSE]]

\* harEntries = har.log.entries.map(... used: false)
App_readHar(file) ==
  [i \in 1..Len(file) |-> [idx |-> i, e |-> file[i], used |-> FALSE]]

\* findHarFor without the `if (e.used) continue` of its two loops.
App_findHarFor_ignoresUsed(har, item) ==
  LET exact == {i \in 1..Len(har) :
                  /\ har[i].e.reqUrl = item.url
                  /\ har[i].e.reqMethod = item.method
                  /\ har[i].e.respStatus = item.status}
      loose == {i \in 1..Len(har) :
                  /\ har[i].e.reqUrl = item.url
                  /\ har[i].e.reqMethod = item.method}
      first(S) == CHOOSE i \in S : \A j \in S : i <= j
  IN  IF exact # {} THEN first(exact)
      ELSE IF loose # {} THEN first(loose)
      ELSE 0

\* findHarFor(item): the first unused entry with the item's url, method and
\* status, else the first unused one with its url and method; 0 for null.
App_findHarFor(har, item) ==
  LET exact == {i \in 1..Len(har) :
                  /\ ~har[i].used
                  /\ har[i].e.reqUrl = item.url
                  /\ har[i].e.reqMethod = item.method
                  /\ har[i].e.respStatus = item.status}
      loose == {i \in 1..Len(har) :
                  /\ ~har[i].used
                  /\ har[i].e.reqUrl = item.url
                  /\ har[i].e.reqMethod = item.method}
      first(S) == CHOOSE i \in S : \A j \in S : i <= j
  IN  IF exact # {} THEN first(exact)
      ELSE IF loose # {} THEN first(loose)
      ELSE 0

\* An augmentation that takes every signal the HAR entry holds, whether or
\* not the item already has it.
App_augmentItem_harWins(item, e) ==
  LET setc == SelectSeq(e.setCookie, HasDatadomeEq)
  IN  [item EXCEPT
         !.reqCookieDatadome =
            IF App_matchDatadome(e.cookie) # <<>> THEN App_matchDatadome(e.cookie) ELSE @,
         !.ddClientId = IF e.clientId # "" THEN e.clientId ELSE @,
         !.ddSetCookiesRuntime = IF Len(setc) > 0 THEN setc ELSE @]

\* The body of the augmentation loop for an item matched with HAR entry e.
App_augmentItem(item, e) ==
  LET setc == SelectSeq(e.setCookie, HasDatadomeEq)
  IN  [item EXCEPT
         !.reqCookieDatadome =
            IF item.reqCookieDatadome = <<>> /\ App_matchDatadome(e.cookie) # <<>>
            THEN App_matchDatadome(e.cookie) ELSE @,
         !.ddClientId =
            IF item.ddClientId = "" /\ e.clientId # "" THEN e.clientId ELSE @,
         !.ddSetCookiesRuntime =
            IF Len(item.ddSetCookiesRuntime) = 0 /\ Len(setc) > 0 THEN setc ELSE @]

\* for (const item of captured) { ... } from item i on: the capture list and
\* the HAR entries it leaves.
RECURSIVE App_augment(_, _, _)
App_augment(cap, har, i) ==
  IF i > Len(cap) THEN [cap |-> cap, har |-> har]
  ELSE LET h == App_findHarFor(har, cap[i])
       IN  IF h = 0 THEN App_augment(cap, har, i + 1)
           ELSE App_augment([cap EXCEPT ![i] = App_augmentItem(cap[i], har[h].e)],
                            [har EXCEPT ![h].used = TRUE],
                            i + 1)

\* The same loop, keeping which HAR entry findHarFor returned for which item.
RECURSIVE App_pairing(_, _, _)
App_pairing(cap, har, i) ==
  IF i > Len(cap) THEN <<>>
  ELSE LET h == App_findHarFor(har, cap[i])
       IN  IF h = 0 THEN App_pairing(cap, har, i + 1)
           ELSE <<[item |-> i, har |-> h]>>
                  \o App_pairing(cap, [har EXCEPT ![h].used = TRUE], i + 1)

\* A numbered row with the annotations printed under it.
App_row(it, n) ==
  [kind |-> "row", no |-> n, req |-> it.req, label |-> it.type, ddLabel |-> it.ddLabel,
   method |-> it.method, url |-> it.url, status |-> it.status,
   clientId |-> it.ddClientId, reqCookie |-> it.reqCookieDatadome,
   setCookies |-> it.ddSetCookiesRuntime]

\* The rows of "Full network capture": printedIdx counts the entries.
App_captureLines(cap) ==
  IF Len(cap) = 0 THEN <<[kind |-> "none"]>>
  ELSE [i \in 1..Len(cap) |-> App_row(cap[i], i)]

\* From "AUGMENT FROM HAR" to the end of "Full network capture".
App_Print ==
  /\ variant = "app"
  /\ phase = "closed"
  /\ phase' = "done"
  /\ LET aug == App_augment(captured, App_readHar(HarFile), 1)
     IN  /\ harEntries' = aug.har
         /\ captured' = aug.cap
         /\ printed' = App_captureLines(aug.cap)
  /\ UNCHANGED <<config, extraction, reruns, mainResponse, now, issued, responded,
                 p1State, p2State, inlinedAfter403, main403Idx, chainOut>>

\* ------------------------------------------------------- part_002: narrative
\* Array.prototype.sort((a, b) => a.idx - b.idx): stable, ascending idx.
InsertByIdx(sorted, e) ==
  LET k == Cardinality({i \in 1..Len(sorted) : sorted[i].idx <= e.idx})
  IN  SubSeq(sorted, 1, k) \o <<e>> \o SubSeq(sorted, k + 1, Len(sorted))

RECURSIVE SortByIdx(_)
SortByIdx(s) ==
  IF Len(s) = 0 THEN <<>>
  ELSE InsertByIdx(SortByIdx(SubSeq(s, 1, Len(s) - 1)), s[Len(s)])

\* const filtered = captured.filter(...).sort(...)
P2_filtered(cap, scope) ==
  LET keep(item) == P2_inScope(item, scope)
  IN  SortByIdx(SelectSeq(cap, keep))

P2_row(item) ==
  [kind |-> "row", no |-> item.idx, req |-> item.req, label |-> item.rt,
   geoType |-> item.geoType,
   method |-> item.method, url |-> item.url, status |-> item.status,
   clientId |-> item.ddClientId, reqCookie |-> item.ddReqCookie,
   setCookies |-> item.ddSetCookies]

P2_captureLines(cap, scope) ==
  LET f == P2_filtered(cap, scope)
  IN  [i \in 1..Len(f) |-> P2_row(f[i])]

P2_Print ==
  /\ variant = "p2"
  /\ phase = "closed"
  /\ phase' = "done"
  /\ printed' = P2_captureLines(captured, scopeIdx)
  /\ UNCHANGED <<config, extraction, reruns, mainResponse, harEntries, now, issued, responded, captured, p1State, p2State,
                 inlinedAfter403, main403Idx, chainOut>>

\* ------------------------------------- app.js (second program): cookies
\* splitSetCookieValue(v)
D_splitSetCookieValue(v) ==
  IF Len(v.cookies) = 0 THEN <<>>
  ELSE IF v.form = "array" THEN v.cookies
  ELSE LET raw == JoinWith(v.cookies, v.sep)
       IN  IF \E i \in 1..Len(raw) : raw[i] = "LF" THEN SplitTok(raw, "LF") ELSE <<raw>>

\* The canonical attribute name parseSetCookie stores a "k=v" segment under.
D_attrKey(k) ==
  CASE ToLower(k) = <<"expires">> -> <<"Expires">>
    [] ToLower(k) = <<"path">>    -> <<"Path">>
    [] OTHER                      -> k

\* The loop over the segments after the first: attrs from segment i on,
\* a later segment overriding an earlier one of the same key.
RECURSIVE D_attrs(_, _, _)
D_attrs(parts, i, attrs) ==
  IF i > Len(parts) THEN attrs
  ELSE LET seg == Trim(parts[i])
           eq  == IndexOfEq(seg)
       IN  IF Len(seg) = 0 THEN D_attrs(parts, i + 1, attrs)
           ELSE IF eq = 0
           THEN D_attrs(parts, i + 1, [k |-> seg, v |-> <<"true">>] :> TRUE @@ attrs)
           ELSE LET k == Trim(SubSeq(seg, 1, eq - 1))
                    v == Trim(SubSeq(seg, eq + 1, Len(seg)))
                    key == IF Len(k) = 1 THEN D_attrKey(<<ToLower(k[1])>>) ELSE k
                    kept == {a \in DOMAIN attrs : a.k # key}
                IN  D_attrs(parts, i + 1,
                            [a \in kept \cup {[k |-> key, v |-> v]} |-> TRUE])

\* parseSetCookie(raw): {name, value, attrs}; name <<>> stands for null.
\* attrs is given as the set of its key/value pairs.
D_parseSetCookie(raw0) ==
  LET raw   == Trim(raw0)
      parts == SplitTok(raw, ";")
      nv    == Trim(parts[1])
      eq    == IndexOfEq(nv)
      null  == [name |-> <<>>, value |-> <<>>, attrs |-> {}]
  IN  IF Len(raw) = 0 THEN null
      ELSE IF eq <= 1 THEN null
      ELSE [ name  |-> Trim(SubSeq(nv, 1, eq - 1)),
             value |-> Trim(SubSeq(nv, eq + 1, Len(nv))),
             attrs |-> DOMAIN D_attrs(parts, 2, <<>>) ]

\* extractDDDetailed(setCookies)
D_extractDDDetailed(setCookies) ==
  LET parsed == [i \in 1..Len(setCookies) |-> D_parseSetCookie(setCookies[i])]
      isDD(c) == Len(c.name) = 1 /\ ToLower(c.name[1]) = "datadome"
  IN  SelectSeq(parsed, isDD)

\* extractDDFromHeadersObject(headersObj)
D_extractDDFromHeadersObject(v) == D_extractDDDetailed(D_splitSetCookieValue(v))

\* ----------------------------------------------------- cookie extraction
\* The extractors applied to a "set-cookie" value: variant "app" is
\* getDataDomeSetCookies of app.js, "appD" extractDDFromHeadersObject of the
\* second program of app.js.
RECURSIVE CookieLists(_)
CookieLists(n) ==
  IF n = 0 THEN {<<>>}
  ELSE LET shorter == CookieLists(n - 1)
       IN  shorter \cup {Append(l, c) : l \in {x \in shorter : Len(x) = n - 1},
                                        c \in CookiePool}

InitCookie ==
  /\ variant \in {"app", "appD"}
  /\ scopeIdx = 0
  /\ runtimeHeaders = TRUE
  /\ phase = "header"
  /\ EmptyRun
  /\ \E cookies \in CookieLists(MaxCookies) \ {<<>>} :
       \/ setCookieIn = SetCookieHeader(cookies, LfSep, "array")
       \/ setCookieIn = SetCookieHeader(cookies, LfSep, "string")
       \/ setCookieIn = SetCookieHeader(cookies, CommaSep, "string")
  /\ ddOut = <<>>
  /\ prompt = PromptDone
  /\ wait = WaitOff

App_ExtractSetCookie ==
  /\ variant = "app"
  /\ phase = "header"
  /\ phase' = "extracted"
  /\ ddOut' = App_getDataDomeSetCookies(setCookieIn)
  /\ UNCHANGED <<config, reruns, mainResponse, harEntries, now, issued, responded,
                 captured, p1State, p2State, narrative, setCookieIn>>

D_ExtractSetCookie ==
  /\ variant = "appD"
  /\ phase = "header"
  /\ phase' = "extracted"
  /\ ddOut' = D_extractDDFromHeadersObject(setCookieIn)
  /\ UNCHANGED <<config, reruns, mainResponse, harEntries, now, issued, responded,
                 captured, p1State, p2State, narrative, setCookieIn>>

NextCookie == App_ExtractSetCookie \/ D_ExtractSetCookie

SpecCookie == InitCookie /\ [][NextCookie]_vars

\* ------------------------------------------- the printing section run again
\* The printing section of part_001 or of app.js is run once more over the
\* state the first run left: the capture list, inlinedAfter403, main403Idx,
\* mainResponse and the HAR file are what they were.
NarrRerun ==
  /\ variant \in {"p1", "app"}
  /\ phase = "done"
  /\ runs = 0
  /\ runs' = 1
  /\ firstOut' = [chain |-> chainOut, capture |-> printed]
  /\ phase' = "closed"
  /\ UNCHANGED <<config, extraction, mainResponse, harEntries, now, issued, responded,
                 captured, p1State, p2State, narrative>>

\* No handler resumes once the capture has ended: the capture list is frozen.
P1_OnResponseResumeInCapture(a) ==
  /\ phase = "capture"
  /\ P1_OnResponseResume(a)

InitNarr ==
  /\ Init
  /\ variant \in {"p1", "app"}

NextNarr ==
  \/ \E r \in Requests, d \in 0..1 : Len(issued) < MaxReq /\ P1_OnRequest(r, d)
  \/ \E id \in Unanswered : P1_OnResponse(id)
  \/ \E a \in awaiting : P1_OnResponseResumeInCapture(a)
  \/ \E r \in Requests : Len(issued) < MaxReq /\ App_Request(r)
  \/ \E id \in Unanswered : App_OnResponse(id)
  \/ \E mr \in Statuses \cup {NoStatus} : CloseContext(mr)
  \/ P1_Print
  \/ P1_PrintCapture
  \/ App_Print
  \/ NarrRerun

SpecNarr == InitNarr /\ [][NextNarr]_vars

\* ------------------------------------------------------------ specification
Next ==
  \/ \E r \in Requests, d \in 0..1 : Len(issued) < MaxReq /\ P1_OnRequest(r, d)
  \/ \E id \in Unanswered : P1_OnResponse(id)
  \/ \E a \in awaiting : P1_OnResponseResume(a)
  \/ \E r \in Requests : Len(issued) < MaxReq /\ App_Request(r)
  \/ \E id \in Unanswered : App_OnResponse(id)
  \/ \E r \in Requests : Len(issued) < MaxReq /\ P2_OnRequest(r)
  \/ \E id \in Unanswered : P2_OnResponse(id)
  \/ \E mr \in Statuses \cup {NoStatus} : CloseContext(mr)
  \/ P1_Print
  \/ P1_PrintCapture
  \/ App_Print
  \/ P2_Print

Spec == Init /\ [][Next]_vars

\* The same events with one more request in the run.
NextLong ==
  \/ \E r \in Requests, d \in 0..1 : Len(issued) < MaxReqLong /\ P1_OnRequest(r, d)
  \/ \E id \in Unanswered : P1_OnResponse(id)
  \/ \E a \in awaiting : P1_OnResponseResume(a)
  \/ \E r \in Requests : Len(issued) < MaxReqLong /\ App_Request(r)
  \/ \E id \in Unanswered : App_OnResponse(id)
  \/ \E r \in Requests : Len(issued) < MaxReqLong /\ P2_OnRequest(r)
  \/ \E id \in Unanswered : P2_OnResponse(id)
  \/ \E mr \in Statuses \cup {NoStatus} : CloseContext(mr)
  \/ P1_Print
  \/ P1_PrintCapture
  \/ App_Print
  \/ P2_Print

SpecLong == Init /\ [][NextLong]_vars

\* ------------------------------------------- capture with failing events
\* The same handlers over exchanges whose processing can fail.
NextFault ==
  \/ \E r \in FaultRequests, d \in 0..1 : Len(issued) < MaxReq /\ P1_OnRequest(r, d)
  \/ \E id \in Unanswered : P1_OnResponse(id)
  \/ \E a \in awaiting : P1_OnResponseResume(a)
  \/ \E r \in FaultRequests : Len(issued) < MaxReq /\ App_Request(r)
  \/ \E id \in Unanswered : App_OnResponse(id)
  \/ \E r \in FaultRequests : Len(issued) < MaxReq /\ P2_OnRequest(r)
  \/ \E id \in Unanswered : P2_OnResponse(id)
  \/ \E mr \in Statuses \cup {NoStatus} : CloseContext(mr)
  \/ P1_Print
  \/ P1_PrintCapture
  \/ App_Print
  \/ P2_Print

SpecFault == Init /\ [][NextFault]_vars

\* ================================================================== claims
\* What the claims speak of, stated on the observable state only.

\* The request passes the type (document/xhr/fetch) and static-asset filter.
PassesTypeStatic(r) ==
  /\ r.rt \in {"document", "xhr", "fetch"}
  /\ ~(Len(r.url.path) > 0 /\ r.url.path[Len(r.url.path)] \in StaticExt)

\* The URL is a static asset: its path ends in a listed extension.
StaticUrl(r) == Len(r.url.path) > 0 /\ r.url.path[Len(r.url.path)] \in StaticExt

OnChallengeHost(r) == r.url.host = GeoHost

\* Exchange id is shown in "Full network capture", as a numbered row / inline.
ShownAsRow(id) ==
  \E k \in DOMAIN printed : printed[k].kind = "row" /\ printed[k].req = id
ShownInline(id) ==
  \E k \in DOMAIN printed : printed[k].kind = "inline" /\ printed[k].req = id
Shown(id) == ShownAsRow(id) \/ ShownInline(id)

\* The exchanges of the printed lines, top to bottom.
ExchangeLines == SelectSeq(printed, LAMBDA l : l.kind \in {"row", "inline"})
NumberedRows  == SelectSeq(printed, LAMBDA l : l.kind = "row")

\* The requests with an entry in the capture list.
CapturedReqs == {captured[k].req : k \in DOMAIN captured}

\* ---------------------------------------------------------------------- C1
\* C1 as stated, for every program: at the end of the capture the capture
\* list holds one record per request event that passed the type and static
\* filter.
C1_OnePerFilteredRequest ==
  phase # "capture" =>
    Len(captured) = Cardinality({i \in DOMAIN issued : PassesTypeStatic(issued[i])})

\* C1 (amended): in part_001 the capture list holds exactly one record per
\* request event that passed the type and static filter, whatever responses
\* were delivered and in whatever order, so a response never adds a record; in
\* app.js and part_002 the records are created by the response handler: each
\* record belongs to a different answered exchange, an unanswered request has
\* none, and the list is never longer than the number of response events.
C1_RecordsFollowTheCreatingHandler ==
  /\ variant = "p1" =>
       /\ Len(captured) =
            Cardinality({i \in DOMAIN issued : PassesTypeStatic(issued[i])})
       /\ CapturedReqs = {i \in DOMAIN issued : PassesTypeStatic(issued[i])}
  /\ variant \in {"app", "p2"} =>
       /\ CapturedReqs \subseteq responded
       /\ Len(captured) = Cardinality(CapturedReqs)
       /\ Len(captured) <= Cardinality(responded)

\* part_001 at the end of a capture in which a filtered-out request and two
\* kept ones were all answered, the later kept one first.
C1_Witness ==
  /\ variant = "p1" /\ phase = "closed"
  /\ Len(issued) = 2 /\ responded = {1, 2}
  /\ Len(captured) = 1
  /\ captured[1].status # NoStatus

\* ---------------------------------------------------------------------- C2
\* C2 as stated, for every program: the printed exchanges follow the order
\* in which their requests were observed and the row numbers increase.
C2_PrintedInRequestOrder ==
  phase = "done" =>
    \A j, k \in DOMAIN ExchangeLines :
      j < k => ExchangeLines[j].req < ExchangeLines[k].req

\* C2 (amended): part_001 prints the exchanges in request-observation order
\* with the rows numbered 1, 2, ... whatever the order of the responses;
\* app.js and part_002 print them in the order of the capture list, which is
\* the order in which the response handlers ran, with strictly increasing
\* numbers.
C2_OrderFollowsTheCreatingHandler ==
  phase = "done" =>
    /\ variant = "p1" =>
         /\ \A j, k \in DOMAIN ExchangeLines :
              j < k => ExchangeLines[j].req < ExchangeLines[k].req
         /\ \A k \in DOMAIN NumberedRows : NumberedRows[k].no = k
    /\ variant \in {"app", "p2"} =>
         /\ \A j, k \in DOMAIN NumberedRows : j < k =>
              /\ NumberedRows[j].no < NumberedRows[k].no
              /\ \E a, b \in DOMAIN captured :
                   /\ a < b
                   /\ captured[a].req = NumberedRows[j].req
                   /\ captured[b].req = NumberedRows[k].req

\* part_001 printed two rows although the response of the second document
\* was handled before the response of the first.
C2_Witness ==
  /\ variant = "p1" /\ phase = "done"
  /\ Len(NumberedRows) >= 2
  /\ Len(initialChain) = 2
  /\ initialChain[1].status = issued[2].status
  /\ initialChain[2].status = issued[1].status
  /\ issued[1].status # issued[2].status
  /\ issued[1].rt = "document" /\ issued[2].rt = "document"

\* ---------------------------------------------------------------------- C3
\* C3: in part_001, when an exchange of the ordered list is a DOCUMENT with
\* status 403 and the next exchange of the list is on a challenge host, the
\* follower is shown inline under that 403 exchange and is not a numbered row.
C3_FollowerInlineUnder403 ==
  (variant = "p1" /\ phase = "done") =>
    LET list == P1_list(captured)
    IN  \A i \in 1..(Len(list) - 1) :
          ( /\ list[i].resourceType = "DOCUMENT" /\ list[i].status = 403
            /\ list[i + 1].hostname = GeoHost )
          => /\ \E k \in DOMAIN printed :
                  /\ printed[k].kind = "inline"
                  /\ printed[k].under = list[i].req
                  /\ printed[k].req = list[i + 1].req
             /\ ~ShownAsRow(list[i + 1].req)

\* ---------------------------------------------------------------------- C4
\* C4: in part_001 a response event whose request has no entry in
\* byRequestId leaves the capture list, the handlers in flight and the
\* document chain as they were: no record is created, none is modified, and
\* the handler has returned (nothing of it stays suspended).
C4_UntrackedResponseChangesNothing ==
  [][ ( /\ variant = "p1"
        /\ responded' # responded
        /\ \A id \in responded' \ responded : id \notin DOMAIN byRequestId )
      => /\ captured' = captured
         /\ awaiting' = awaiting
         /\ initialChain' = initialChain
         /\ byRequestId' = byRequestId ]_vars

\* part_001 has handled the response of a request it had filtered out, next
\* to an exchange it tracks.
C4_Witness ==
  /\ variant = "p1"
  /\ \E id \in responded : id \notin DOMAIN byRequestId
  /\ Len(captured) >= 1
  /\ \E k \in DOMAIN captured : captured[k].status # NoStatus

\* ---------------------------------------------------------------------- C5
\* C5 as stated: every answered exchange on the challenge host is printed
\* by app.js and part_002 under every scope, whatever its type and method.
C5_ChallengeAlwaysPrinted ==
  (variant \in {"app", "p2"} /\ phase = "done") =>
    \A id \in responded : OnChallengeHost(issued[id]) => Shown(id)

\* C5 (amended): under every scope policy and whatever its method, an
\* answered exchange on the challenge host is printed by part_002 whatever
\* its resource type, and by app.js when its type is document, xhr or fetch
\* and its URL is not a static asset.
C5_ChallengePrintedWhenLoggable ==
  (variant \in {"app", "p2"} /\ phase = "done") =>
    \A id \in responded :
      ( /\ OnChallengeHost(issued[id])
        /\ variant = "app" => PassesTypeStatic(issued[id]) )
      => Shown(id)

\* app.js under same-domain scope printed a challenge-host document and left
\* out a challenge-host script.
C5_Witness ==
  /\ variant = "app" /\ scopeIdx = 0 /\ phase = "done"
  /\ \E id \in responded :
       OnChallengeHost(issued[id]) /\ PassesTypeStatic(issued[id]) /\ Shown(id)
  /\ \E id \in responded :
       OnChallengeHost(issued[id]) /\ issued[id].rt = "script" /\ ~Shown(id)

\* ---------------------------------------------------------------------- C6
\* C6 as stated: under any-origin scope an answered static-asset exchange is
\* printed exactly when it is on the challenge host.
C6_StaticPrintedIffChallenge ==
  (variant \in {"app", "p2"} /\ scopeIdx = 2 /\ phase = "done") =>
    \A id \in responded :
      StaticUrl(issued[id]) => (Shown(id) <=> OnChallengeHost(issued[id]))

\* C6 (amended): a static-asset exchange off the challenge host is never
\* printed, by any of the programs and under any scope; a static asset on the
\* challenge host is printed by part_002 and is left out by app.js and
\* part_001, which exclude static assets unconditionally.
C6_StaticExcludedButForPart002Challenge ==
  phase = "done" =>
    \A id \in responded :
      StaticUrl(issued[id]) =>
        (Shown(id) <=> (variant = "p2" /\ OnChallengeHost(issued[id])))

\* part_002 under any-origin scope printed a challenge-host image and left
\* out a stylesheet URL of the target.
C6_Witness ==
  /\ variant = "p2" /\ scopeIdx = 2 /\ phase = "done"
  /\ \E id \in responded :
       StaticUrl(issued[id]) /\ OnChallengeHost(issued[id]) /\ Shown(id)
  /\ \E id \in responded :
       StaticUrl(issued[id]) /\ ~OnChallengeHost(issued[id]) /\ ~Shown(id)

\* ---------------------------------------------------------------------- C7
\* C7 as stated: every entry of the capture list and every printed exchange
\* has resource type document, xhr or fetch.
C7_OnlyDocXhrFetch ==
  /\ \A k \in DOMAIN captured :
       issued[captured[k].req].rt \in {"document", "xhr", "fetch"}
  /\ \A id \in DOMAIN issued :
       Shown(id) => issued[id].rt \in {"document", "xhr", "fetch"}

\* C7 (amended): part_001 and app.js log only document, xhr and fetch
\* exchanges; part_002 logs those and, whatever their resource type, the
\* exchanges of geo.captcha-delivery.com.
C7_OnlyDocXhrFetchOrPart002Challenge ==
  /\ \A k \in DOMAIN captured :
       \/ issued[captured[k].req].rt \in {"document", "xhr", "fetch"}
       \/ variant = "p2" /\ OnChallengeHost(issued[captured[k].req])
  /\ \A id \in DOMAIN issued :
       Shown(id) =>
         \/ issued[id].rt \in {"document", "xhr", "fetch"}
         \/ variant = "p2" /\ OnChallengeHost(issued[id])

\* app.js answered an image request of the target and a document: the
\* document is printed, the image is not.
C7_Witness ==
  /\ variant = "app" /\ phase = "done"
  /\ \E id \in responded : issued[id].rt = "image" /\ ~Shown(id)
  /\ \E id \in responded : issued[id].rt = "document" /\ Shown(id)

\* ---------------------------------------------------------------------- C8
\* The host is the target's registrable domain or a subdomain of it.
RegistrableOfTarget == ApexHost
SameSite(host) ==
  host = RegistrableOfTarget \/ EndsWith(host, <<".">> \o RegistrableOfTarget)

\* C8: under same-domain scope (the only scope of part_001) an answered
\* exchange off the challenge hosts that passes the type and static filter
\* is printed if and only if its host is the target's registrable domain or
\* a subdomain of it.
C8_SameDomainIffRegistrableOrSubdomain ==
  (scopeIdx = 0 /\ phase = "done") =>
    \A id \in responded :
      ( /\ PassesTypeStatic(issued[id])
        /\ ~OnChallengeHost(issued[id]) )
      => (Shown(id) <=> SameSite(issued[id].url.host))

\* ---------------------------------------------------------------------- C9
\* The datadome cookies among the cookies joined in the header value.
C9_Datadome == {k \in DOMAIN setCookieIn.cookies : setCookieIn.cookies[k][1] = "datadome"}
C9_HasExpires(c) == \E i \in DOMAIN c : c[i] = "Expires"

\* C9: for a composite Set-Cookie string that joins several cookies with
\* ", ", exactly one of them named datadome and carrying an Expires attribute,
\* the extractor returns exactly one record: in app.js the whole datadome
\* cookie, in the second program of app.js a record with the cookie's value
\* and its whole Expires date.
C9_OneCompleteDatadomeRecord ==
  ( /\ phase = "extracted"
    /\ setCookieIn.form = "string" /\ setCookieIn.sep = CommaSep
    /\ Len(setCookieIn.cookies) >= 2
    /\ Cardinality(C9_Datadome) = 1
    /\ \A k \in C9_Datadome : C9_HasExpires(setCookieIn.cookies[k]) )
  => LET dd == setCookieIn.cookies[CHOOSE k \in C9_Datadome : TRUE]
     IN  /\ Len(ddOut) = 1
         /\ variant = "app" => ddOut[1] = dd
         /\ variant = "appD" =>
              /\ ddOut[1].value = <<"xyz">>
              /\ [k |-> <<"Expires">>, v |-> DateValue] \in ddOut[1].attrs

\* --------------------------------------------------------------------- C10
\* C10: when the printing section (in app.js from the HAR augmentation on)
\* has run a second time over the capture list the first run left, with no
\* handler resuming in between, it has printed what the first run printed:
\* the same chain lines, the same rows with the same numbers, inline steps
\* and cookie and header annotations.
C10_SecondRunPrintsTheSame ==
  (runs = 1 /\ phase = "done") =>
    /\ chainOut = firstOut.chain
    /\ printed = firstOut.capture

\* app.js has printed twice a row whose request cookie the runtime had not
\* seen and the HAR entry supplied, while the HAR file holds more entries of
\* that URL and method than the capture list.
C10_Witness ==
  /\ variant = "app" /\ runs = 1 /\ phase = "done"
  /\ ~runtimeHeaders
  /\ \E k \in DOMAIN printed :
       /\ printed[k].kind = "row"
       /\ printed[k].reqCookie # <<>>
       /\ \E i, j \in DOMAIN harEntries :
            /\ i # j
            /\ harEntries[i].used /\ ~harEntries[j].used
            /\ harEntries[i].e.reqUrl = printed[k].url
            /\ harEntries[j].e.reqUrl = printed[k].url
            /\ harEntries[j].e.reqMethod = printed[k].method

\* --------------------------------------------------------------------- C11
\* The entry of the capture list made for exchange id, if any.
EntryOf(id) == captured[CHOOSE k \in DOMAIN captured : captured[k].req = id]

C12_EmptyCaptureSaysSo ==
  (phase = "done" /\ Len(ExchangeLines) = 0) =>
    \E k \in DOMAIN printed : printed[k].kind = "none"

\* ============================================================ the URL prompt
\* What the user types is a sequence of tokens: a scheme ("https://",
\* "http://", "HTTP://"), a host word "h", a path word "p", "/" and " ".
\* Answers the user may give to the prompt before giving up.
MaxInputs == 2

Schemes == {"https://", "http://", "HTTP://"}

InputPool ==
  { <<>>, <<" ">>, <<"h">>, <<" ", "h", " ">>, <<"https://", "h">>,
    <<"HTTP://", "h">>, <<"https://">>, <<"h", " ", "h">>, <<"h", "/", "p">>,
    <<"http://", "h", "/">> }

\* The programs that ask for a URL: the three capture programs, the second
\* program of part_001 ("p1B", lines 590-863) and of app.js ("appD", 636-1120).
PromptVariants == Variants \cup {"p1B", "appD"}

\* /^https?:\/\//.test(s): the test without the i flag
HasHttpScheme_caseSensitive(s) == Len(s) > 0 /\ s[1] \in {"https://", "http://"}

\* /^https?:\/\//i.test(s)
HasHttpScheme(s) == Len(s) > 0 /\ s[1] \in Schemes

\* The authority of an absolute URL: what follows the scheme up to the first "/".
Authority(u) ==
  LET rest == Tail(u)
  IN  IF \A i \in 1..Len(rest) : rest[i] # "/" THEN rest
      ELSE SubSeq(rest, 1, (CHOOSE i \in 1..Len(rest) :
                              rest[i] = "/" /\ \A j \in 1..(i - 1) : rest[j] # "/") - 1)

\* new URL(u) does not throw: u has a scheme and a host, and no space in the host.
UrlParses(u) ==
  /\ Len(u) > 0
  /\ u[1] \in Schemes
  /\ Len(Authority(u)) > 0
  /\ \A i \in 1..Len(Authority(u)) : Authority(u)[i] # " "

\* new URL(u).toString(): the scheme in lower case, "/" for an empty path,
\* a space of the path percent-encoded.
Href(u) ==
  LET auth == Authority(u)
      path == SubSeq(u, Len(auth) + 2, Len(u))
  IN  <<IF u[1] = "HTTP://" THEN "http://" ELSE u[1]>> \o auth \o
      (IF Len(path) = 0 THEN <<"/">>
       ELSE [i \in 1..Len(path) |-> IF path[i] = " " THEN "%20" ELSE path[i]])

\* Everything but the prompt.
session == <<variant, scopeIdx, runtimeHeaders, mainNavResponse, wait, shutdown, phase, now, issued, responded,
             captured, p1State, p2State, narrative, mainResponse, harEntries,
             reruns, extraction>>

Returned(raw, u) == [typed |-> Append(prompt.typed, raw), state |-> "returned", url |-> u]
Reprompt(raw) == [prompt EXCEPT !.typed = Append(@, raw)]

\* part_001: normalizeInputURL
P1_normalizeInputURL(input) ==
  LET s == Trim(input)
  IN  IF Len(s) = 0 THEN s
      ELSE IF ~HasHttpScheme(s) THEN <<"https://">> \o s ELSE s

\* part_001: one answer to 'Which website do you want to open?'
P1_AskUrl(raw) ==
  /\ variant = "p1"
  /\ prompt.state = "asking"
  /\ LET normalized == P1_normalizeInputURL(Trim(raw))
     IN  prompt' = IF UrlParses(normalized)
                   THEN Returned(raw, IF normalized[Len(normalized)] \in {"/"} \cup Schemes
                                      THEN normalized ELSE normalized \o <<"/">>)
                   ELSE Reprompt(raw)
  /\ UNCHANGED session

\* app.js: one turn of the loop of askUrl
App_askUrl(raw) ==
  /\ variant = "app"
  /\ prompt.state = "asking"
  /\ LET s == Trim(raw)
         url == IF ~HasHttpScheme(s) THEN <<"https://">> \o s ELSE s
     IN  prompt' = IF Len(s) = 0 THEN Reprompt(raw)
                   ELSE IF UrlParses(url) THEN Returned(raw, url)
                   ELSE Reprompt(raw)
  /\ UNCHANGED session

\* part_002: toAbsoluteUrlMaybe (<<>> stands for null)
P2_toAbsoluteUrlMaybe(input) ==
  LET trimmed == Trim(input)
  IN  IF Len(input) = 0 \/ Len(trimmed) = 0 THEN <<>>
      ELSE IF HasHttpScheme(trimmed) THEN trimmed
      ELSE <<"https://">> \o trimmed

\* part_002: one turn of the loop of promptUrlLoop
P2_promptUrlLoop(raw) ==
  /\ variant = "p2"
  /\ prompt.state = "asking"
  /\ LET maybe == P2_toAbsoluteUrlMaybe(Trim(raw))
     IN  prompt' = IF Len(maybe) > 0 /\ UrlParses(maybe) THEN Returned(raw, maybe)
                   ELSE Reprompt(raw)
  /\ UNCHANGED session

\* normalizeUrl of the second programs (<<>> stands for null)
D_normalizeUrl(input) ==
  LET u == IF HasHttpScheme(input) THEN input ELSE <<"https://">> \o input
  IN  IF UrlParses(u) THEN Href(u) ELSE <<>>

\* part_001, second program: the URL is asked once; an invalid one ends the process
B_AskUrl(raw) ==
  /\ variant = "p1B"
  /\ prompt.state = "asking"
  /\ LET url == D_normalizeUrl(Trim(raw))
     IN  prompt' = IF Len(url) = 0
                   THEN [typed |-> Append(prompt.typed, raw), state |-> "exited", url |-> <<>>]
                   ELSE Returned(raw, url)
  /\ UNCHANGED session

\* app.js, second program: one turn of the loop "URL (loop until valid)"
D_AskUrl(raw) ==
  /\ variant = "appD"
  /\ prompt.state = "asking"
  /\ LET url == D_normalizeUrl(Trim(raw))
     IN  prompt' = IF Len(url) > 0 THEN Returned(raw, url) ELSE Reprompt(raw)
  /\ UNCHANGED session

InitPrompt ==
  /\ variant \in PromptVariants
  /\ scopeIdx = 0
  /\ runtimeHeaders = TRUE
  /\ phase = "prompt"
  /\ EmptyRun
  /\ setCookieIn = NoSetCookie
  /\ ddOut = <<>>
  /\ prompt = [typed |-> <<>>, state |-> "asking", url |-> <<>>]
  /\ wait = WaitOff

NextPrompt ==
  \/ \E raw \in InputPool : Len(prompt.typed) < MaxInputs /\ P1_AskUrl(raw)
  \/ \E raw \in InputPool : Len(prompt.typed) < MaxInputs /\ App_askUrl(raw)
  \/ \E raw \in InputPool : Len(prompt.typed) < MaxInputs /\ P2_promptUrlLoop(raw)
  \/ \E raw \in InputPool : Len(prompt.typed) < MaxInputs /\ B_AskUrl(raw)
  \/ \E raw \in InputPool : Len(prompt.typed) < MaxInputs /\ D_AskUrl(raw)

SpecPrompt == InitPrompt /\ [][NextPrompt]_vars

\* ----------------------------------------------------------------- C13
\* The input with the https scheme prefixed when it has none of http, https.
C13_Prefixed(raw) ==
  LET t == Trim(raw)
  IN  IF Len(t) > 0 /\ t[1] \in Schemes THEN t ELSE <<"https://">> \o t

C13_Valid(raw) == UrlParses(C13_Prefixed(raw))

\* The prompt is asking only after invalid inputs, and what it returned is the
\* first valid input, with an http or https scheme.
C13_ReturnsFirstValid ==
  /\ \A k \in 1..(Len(prompt.typed) - 1) : ~C13_Valid(prompt.typed[k])
  /\ prompt.state = "asking" => \A k \in DOMAIN prompt.typed : ~C13_Valid(prompt.typed[k])
  /\ prompt.state = "returned" =>
       /\ Len(prompt.typed) > 0
       /\ C13_Valid(prompt.typed[Len(prompt.typed)])
       /\ UrlParses(prompt.url)
       /\ Authority(prompt.url) = Authority(C13_Prefixed(prompt.typed[Len(prompt.typed)]))

\* C13: the URL prompt never lets a malformed input through and never ends
\* the run: it re-prompts after each invalid input, proceeds only with the
\* first input that parses once a missing http(s) scheme is prefixed, and the
\* URL it returns has an http or https scheme.
C13_PromptNeverEndsRun ==
  /\ phase = "prompt" => prompt.state # "exited"
  /\ phase = "prompt" => C13_ReturnsFirstValid

\* C13 (amended): the same, except that the second program of part_001 asks
\* once and ends the process on an invalid input; no other program ends the run.
C13_RePromptsExceptSecondProgramOfPart001 ==
  phase = "prompt" =>
    /\ C13_ReturnsFirstValid
    /\ prompt.state = "exited" =>
         /\ variant = "p1B"
         /\ Len(prompt.typed) = 1
         /\ ~C13_Valid(prompt.typed[1])
    /\ variant = "p1B" => Len(prompt.typed) <= 1

C13_Witness ==
  /\ phase = "prompt"
  /\ variant = "app"
  /\ prompt.state = "returned"
  /\ prompt.typed = << <<"h", " ", "h">>, <<"HTTP://", "h">> >>
  /\ prompt.url = <<"HTTP://", "h">>

\* ========================================================= the finish policy
\* After page.goto has returned the program waits for the end of the capture.
\*   part_001, app.js, part_002: auto = waitForLoadState('networkidle') with a
\*     timeout (20000, 45000, 15000 ms), then a 5000 ms timer; manual = a
\*     question answered by the Enter key.
\*   second programs ("p1B", "appD"): a loop that sleeps 250 ms until the idle
\*     timer has set finishRequested or MAX_CAPTURE_MS is exceeded.
\* wait.stage: "networkidle" | "grace" | "enter" | "loop" | "ended".
\* wait.elapsed: Date.now() - start; wait.idleAt: when idleTimer was armed
\* (-1 = null, or a timer that has fired); wait.timers: the timeouts that are
\* set and have neither fired nor been cleared.

\* Requests of the page that can be in flight at once.
MaxInflight == 1
QUIET_MS == 5000
MAX_CAPTURE_MS == 120000
\* await sleep(250)
SLEEP_MS == 250

Waiting == wait.stage \in {"networkidle", "grace", "enter", "loop"}

\* Everything but the finish policy.
beforeWait == <<variant, scopeIdx, runtimeHeaders, mainNavResponse, prompt, shutdown, phase, now, issued,
                responded, captured, p1State, p2State, narrative, mainResponse,
                harEntries, reruns, extraction>>

\* The browser sends a request of the page (part_001, app.js, part_002).
Browser_Request ==
  /\ variant \in Variants
  /\ Waiting
  /\ wait.inflight < MaxInflight
  /\ wait' = [wait EXCEPT !.inflight = @ + 1]
  /\ UNCHANGED beforeWait

\* A request of the page finishes or fails.
Browser_RequestDone ==
  /\ variant \in Variants
  /\ Waiting
  /\ wait.inflight > 0
  /\ wait' = [wait EXCEPT !.inflight = @ - 1]
  /\ UNCHANGED beforeWait

\* waitForLoadState('networkidle') resolves: no request is in flight.
Auto_NetworkIdle ==
  /\ wait.stage = "networkidle"
  /\ wait.inflight = 0
  /\ wait' = [wait EXCEPT !.stage = "grace"]
  /\ UNCHANGED beforeWait

\* The timeout of waitForLoadState fires; the rejection is caught.
Auto_WaitTimeout ==
  /\ wait.stage = "networkidle"
  /\ wait' = [wait EXCEPT !.stage = "grace"]
  /\ UNCHANGED beforeWait

\* The 5000 ms timer fires.
Auto_Grace ==
  /\ wait.stage = "grace"
  /\ wait' = [wait EXCEPT !.stage = "ended"]
  /\ UNCHANGED beforeWait

\* The user presses Enter.
Manual_PressEnter ==
  /\ wait.stage = "enter"
  /\ wait' = [wait EXCEPT !.stage = "ended"]
  /\ UNCHANGED beforeWait

\* armIdleTimer without its clearTimeout.
D_armIdleTimer_noClear(w) ==
  [w EXCEPT !.timers = @ + 1, !.idleAt = w.elapsed]

\* armIdleTimer(): if (idleTimer) clearTimeout(idleTimer); idleTimer = setTimeout(...)
D_armIdleTimer(w) ==
  [w EXCEPT !.timers = (IF w.idleAt # -1 THEN @ - 1 ELSE @) + 1,
            !.idleAt = w.elapsed]

\* second programs: page.on('request')
D_OnRequestStarted ==
  /\ wait.stage = "loop"
  /\ wait.inflight < MaxInflight
  /\ wait' = [wait EXCEPT !.inflight = @ + 1,
                          !.timers = IF wait.idleAt # -1 THEN @ - 1 ELSE @,
                          !.idleAt = -1]
  /\ UNCHANGED beforeWait

\* second programs: page.on('requestfinished') and page.on('requestfailed')
D_OnRequestDone ==
  /\ wait.stage = "loop"
  /\ LET w == [wait EXCEPT !.inflight = IF @ > 0 THEN @ - 1 ELSE 0]
     IN  wait' = IF w.inflight = 0 THEN D_armIdleTimer(w) ELSE w
  /\ UNCHANGED beforeWait

\* The idle timer is due.
IdleTimerDue == wait.idleAt >= 0 /\ wait.elapsed >= wait.idleAt + QUIET_MS

\* second programs: the callback of armIdleTimer
D_IdleTimerFires ==
  /\ wait.stage = "loop"
  /\ IdleTimerDue
  /\ wait' = [wait EXCEPT !.finishRequested = TRUE, !.idleAt = -1, !.timers = @ - 1]
  /\ UNCHANGED beforeWait

\* The wait loop without the test of MAX_CAPTURE_MS (the clock of the model
\* stops at the cap).
D_WaitLoop_noCap ==
  /\ wait.stage = "loop"
  /\ ~IdleTimerDue
  /\ wait' = IF wait.finishRequested THEN [wait EXCEPT !.stage = "ended"]
             ELSE [wait EXCEPT !.elapsed =
                     IF @ + SLEEP_MS > MAX_CAPTURE_MS THEN @ ELSE @ + SLEEP_MS]
  /\ UNCHANGED beforeWait

\* second programs: one turn of while(!finishRequested).  A timer that is due
\* fires before the sleep of the turn resolves.
D_WaitLoop ==
  /\ wait.stage = "loop"
  /\ ~IdleTimerDue
  /\ wait' = IF wait.finishRequested \/ wait.elapsed > MAX_CAPTURE_MS
             THEN [wait EXCEPT !.stage = "ended"]
             ELSE [wait EXCEPT !.elapsed = @ + SLEEP_MS]
  /\ UNCHANGED beforeWait

InitFinish ==
  /\ variant \in PromptVariants
  /\ scopeIdx = 0
  /\ runtimeHeaders = TRUE
  /\ phase = "capture"
  /\ EmptyRun
  /\ setCookieIn = NoSetCookie
  /\ ddOut = <<>>
  /\ prompt = PromptDone
  /\ \E m \in (IF variant \in Variants THEN {"auto", "manual"} ELSE {"auto"}),
        n \in 0..MaxInflight :
       wait = [mode |-> m,
               stage |-> IF variant \notin Variants THEN "loop"
                         ELSE IF m = "auto" THEN "networkidle" ELSE "enter",
               elapsed |-> 0,
               idleAt |-> IF variant \in Variants THEN -1 ELSE 0,
               timers |-> IF variant \in Variants THEN 0 ELSE 1,
               inflight |-> n,
               finishRequested |-> FALSE]

NextFinish ==
  \/ Browser_Request
  \/ Browser_RequestDone
  \/ Auto_NetworkIdle
  \/ Auto_WaitTimeout
  \/ Auto_Grace
  \/ Manual_PressEnter
  \/ D_OnRequestStarted
  \/ D_OnRequestDone
  \/ D_IdleTimerFires
  \/ D_WaitLoop

SpecFinish == InitFinish /\ [][NextFinish]_vars

\* Timers that are due fire and the wait loop runs; the page and the user are
\* under no obligation.
SpecFinishLive ==
  /\ SpecFinish
  /\ WF_vars(Auto_WaitTimeout)
  /\ WF_vars(Auto_Grace)
  /\ WF_vars(D_IdleTimerFires)
  /\ WF_vars(D_WaitLoop)

\* ----------------------------------------------------------------- C14
\* C14: the capture phase always terminates: in every finish mode, even when
\* the page keeps issuing requests and is never idle, a timeout ends the
\* capture.
C14_CaptureAlwaysTerminates == <>(wait.stage = "ended")

\* C14 (amended): in the automatic finish mode the capture always terminates,
\* whatever the page does; in the second programs it has ended when
\* MAX_CAPTURE_MS and one sleep have passed.
C14_AutoFinishTerminates ==
  /\ (wait.mode = "auto" /\ Waiting) ~> (wait.stage = "ended")
  /\ [](wait.stage = "loop" => wait.elapsed <= MAX_CAPTURE_MS + SLEEP_MS)

\* The cap ended a capture during which the page was never idle for QUIET_MS.
C14_Witness ==
  /\ variant = "appD"
  /\ wait.stage = "ended"
  /\ ~wait.finishRequested
  /\ wait.elapsed > MAX_CAPTURE_MS

\* ================================================ second programs: capture
\* part_001 (lines 590-863, "p1B") and app.js (lines 636-1120, "appD"):
\* page.on('response') pushes an entry for every document, xhr and fetch
\* response; the main document is the last entry of a navigation of the main
\* frame.
D_ALLOWED_TYPES == {"document", "xhr", "fetch"}

\* classifyDD: /\/captcha\//i.test(url) ("" stands for null)
D_classifyDD(u) ==
  LET s == u.path \o <<"?">> \o u.query
      has(seg) == \E i \in 2..(Len(s) - 1) :
                    s[i - 1] = "/" /\ s[i] = seg /\ s[i + 1] = "/"
  IN  IF has("interstitial") THEN "Device Check"
      ELSE IF has("captcha") THEN "CAPTCHA/BLOCK"
      ELSE ""

\* The browser sends a request; the programs count it and record nothing.
D_Request(r) ==
  /\ variant \in {"p1B", "appD"}
  /\ phase = "capture"
  /\ issued' = Append(issued, r)
  /\ UNCHANGED <<config, extraction, reruns, mainResponse, harEntries, phase, now,
                 responded, captured, p1State, p2State, narrative>>

\* page.on('response') up to its first await (req.headers(),
\* res.headerValues('set-cookie')); main: the request is a navigation of the
\* main frame.  Responses still arrive while the cookies are persisted, until
\* the context is closed.
D_OnResponse(id, main) ==
  /\ variant \in {"p1B", "appD"}
  /\ phase \in {"capture", "closing"}
  /\ main => issued[id].rt = "document"
  /\ responded' = responded \cup {id}
  /\ IF issued[id].fault # "request" /\ issued[id].rt \in D_ALLOWED_TYPES
     THEN awaiting' = awaiting \cup {[req |-> id, isMain |-> main]}
     ELSE UNCHANGED awaiting
  /\ UNCHANGED <<config, extraction, reruns, mainResponse, harEntries, phase, now, issued,
                 captured, byRequestId, initialChain, initialDocumentRequest,
                 p2State, narrative>>

\* page.on('response') after the awaits: entries.push(rec); Date.now() has
\* advanced by d.
D_OnResponseResume(a, d) ==
  /\ variant \in {"p1B", "appD"}
  /\ phase \in {"capture", "closing"}
  /\ a \in awaiting
  /\ awaiting' = awaiting \ {a}
  /\ now + d <= MaxClock
  /\ now' = now + d
  /\ captured' = Append(captured,
       [ req     |-> a.req,
         url     |-> issued[a.req].url,
         status  |-> issued[a.req].status,
         type    |-> issued[a.req].rt,
         isMain  |-> a.isMain,
         ddPhase |-> D_classifyDD(issued[a.req].url),
         ts      |-> now',
         method  |-> issued[a.req].method ])
  /\ UNCHANGED <<config, extraction, reruns, mainResponse, harEntries, phase, issued,
                 responded, byRequestId, initialChain, initialDocumentRequest,
                 p2State, narrative>>

\* Mutant of D_mains: every entry counts as a main document.
D_mains_anyEntry(cap) == SortByTs(cap)

\* entries.filter(e=>e.isMain && e.type==='document').sort((a,b)=>a.t0-b.t0)
D_mains(cap) ==
  SortByTs(SelectSeq(cap, LAMBDA e : e.isMain /\ e.type = "document"))

\* The index in cap of the entry of request id.
IndexOfReq(cap, id) == CHOOSE k \in 1..Len(cap) : cap[k].req = id

\* The wait loop has ended: mainNavResponse = mains.length ? mains[mains.length-1] : null
D_EndCapture ==
  /\ variant \in {"p1B", "appD"}
  /\ phase = "capture"
  /\ phase' = "closing"
  /\ LET mains == D_mains(captured)
     IN  mainNavResponse' = IF Len(mains) > 0
                            THEN IndexOfReq(captured, mains[Len(mains)].req) ELSE 0
  /\ UNCHANGED <<variant, scopeIdx, runtimeHeaders, prompt, wait, shutdown, extraction, reruns,
                 mainResponse, harEntries, now, issued, responded, captured,
                 p1State, p2State, narrative>>

\* part_001, second program: the lines under "Network Requests"
B_stepLines(cap, m) ==
  IF m # 0 /\ cap[m].status = 403
  THEN LET seq == SortByTs(SelectSeq(cap, LAMBDA e : ~e.isMain /\ e.ddPhase # ""))
       IN  [i \in 1..Len(seq) |-> [kind |-> "step", under |-> cap[m].req, req |-> seq[i].req]]
  ELSE <<>>

\* An incident list restricted to documents.
D_incidentLines_documentsOnly(cap, m) ==
  LET inc == SortByTs(SelectSeq(cap, LAMBDA e :
                 e.status = 403 /\ e.type = "document" /\ (m = 0 \/ e.req # cap[m].req)))
  IN  [i \in 1..Len(inc) |-> [kind |-> "incident", req |-> inc[i].req]]

\* app.js, second program: incidents403
D_incidentLines(cap, m) ==
  LET inc == SortByTs(SelectSeq(cap, LAMBDA e :
                 e.status = 403 /\ e.type \in D_ALLOWED_TYPES /\ (m = 0 \/ e.req # cap[m].req)))
  IN  [i \in 1..Len(inc) |-> [kind |-> "incident", req |-> inc[i].req]]

\* A challenge-step list that holds only the first classified entry after the
\* incident.
D_seq_firstOnly(cap, inc) ==
  LET all == SortByTs(SelectSeq(cap, LAMBDA e : e.ts >= inc.ts /\ e.ddPhase # ""))
  IN  IF Len(all) = 0 THEN <<>> ELSE <<all[1]>>

\* seq of an incident: entries.filter(e => e.t0 >= inc.t0 && e.ddPhase).sort(t0)
D_seq(cap, inc) ==
  SortByTs(SelectSeq(cap, LAMBDA e : e.ts >= inc.ts /\ e.ddPhase # ""))

\* The lines of the loop `for (const inc of incidents403)` from incident i on:
\* the incident, then its "Subsequent challenge steps".
RECURSIVE D_incidentSection(_, _, _)
D_incidentSection(cap, m, i) ==
  LET incs == D_incidentLines(cap, m)
  IN  IF i > Len(incs) THEN <<>>
      ELSE LET inc == cap[IndexOfReq(cap, incs[i].req)]
               seq == D_seq(cap, inc)
           IN  <<incs[i]>>
               \o [j \in 1..Len(seq) |->
                     [kind |-> "step", under |-> inc.req, req |-> seq[j].req]]
               \o D_incidentSection(cap, m, i + 1)

\* A subsequent-request list that leaves out every main-frame document.
D_subs_noMainDocuments(cap, m) ==
  IF m = 0 THEN <<>>
  ELSE SortByTs(SelectSeq(cap, LAMBDA e :
         /\ e.type \in D_ALLOWED_TYPES
         /\ ~(e.isMain /\ e.type = "document")
         /\ e.ts >= cap[m].ts))

\* subs: the entries listed under "Subsequent requests after initial request"
D_subs(cap, m) ==
  IF m = 0 THEN <<>>
  ELSE SortByTs(SelectSeq(cap, LAMBDA e :
         /\ e.type \in D_ALLOWED_TYPES
         /\ ~(e.isMain /\ e.type = "document" /\ e.req = cap[m].req)
         /\ e.ts >= cap[m].ts))

D_subLines(cap, m) ==
  LET subs == D_subs(cap, m)
  IN  [i \in 1..Len(subs) |-> [kind |-> "sub", no |-> i, req |-> subs[i].req,
                                phase |-> subs[i].ddPhase]]

\* context.close() and the section "Network Requests"
D_Print ==
  /\ variant \in {"p1B", "appD"}
  /\ phase = "closing"
  /\ phase' = "done"
  /\ chainOut' = IF mainNavResponse # 0
                 THEN <<[kind |-> "requested", url |-> captured[mainNavResponse].url,
                         status |-> captured[mainNavResponse].status]>>
                 ELSE <<[kind |-> "none"]>>
  /\ printed' = IF variant = "p1B" THEN B_stepLines(captured, mainNavResponse)
                ELSE D_incidentSection(captured, mainNavResponse, 1)
                     \o D_subLines(captured, mainNavResponse)
  /\ UNCHANGED <<config, extraction, reruns, mainResponse, harEntries, now, issued,
                 responded, captured, p1State, p2State, inlinedAfter403, main403Idx>>

\* The exchanges of a navigation: the page, a page with a static extension,
\* two background calls and the challenge document.
NavRequests ==
  { r \in Requests :
      \/ r.rt = "document" /\ r.url.host \in {TargetHost, GeoHost} /\ r.cookie = <<>>
      \/ r.url.host \in {ApexHost, LookHost} }

InitNav ==
  /\ variant \in {"p1", "p1B", "appD"}
  /\ scopeIdx = 0
  /\ runtimeHeaders = TRUE
  /\ phase = "capture"
  /\ EmptyRun
  /\ setCookieIn = NoSetCookie
  /\ ddOut = <<>>
  /\ prompt = PromptDone
  /\ wait = WaitOff

NextNav ==
  \/ \E r \in NavRequests, d \in 0..1 : Len(issued) < MaxReq /\ P1_OnRequest(r, d)
  \/ \E id \in Unanswered : P1_OnResponse(id)
  \/ \E a \in awaiting : P1_OnResponseResume(a)
  \/ \E mr \in Statuses \cup {NoStatus} : CloseContext(mr)
  \/ P1_Print
  \/ P1_PrintCapture
  \/ \E r \in NavRequests : Len(issued) < MaxReq /\ D_Request(r)
  \/ \E id \in Unanswered, main \in BOOLEAN : D_OnResponse(id, main)
  \/ \E a \in awaiting, d \in 0..1 : D_OnResponseResume(a, d)
  \/ D_EndCapture
  \/ D_Print

SpecNav == InitNav /\ [][NextNav]_vars

\* ----------------------------------------------------------------- C15
\* The capture list holds no document exchange.
C15_NoDocument ==
  \A k \in DOMAIN captured :
    IF variant = "p1" THEN captured[k].resourceType # "DOCUMENT"
    ELSE captured[k].type # "document"

C15_NoInitialResponseLine == chainOut = <<[kind |-> "none"]>>

\* C15: when the capture list contains no document exchange, the narrative
\* completes and prints that there is no initial document response.
C15_NoDocumentPrintsNoInitialResponse ==
  (variant \in {"p1", "p1B", "appD"} /\ phase = "done" /\ C15_NoDocument) =>
    C15_NoInitialResponseLine

\* C15 (amended): with no document exchange in the capture list the narrative
\* prints that there is no initial document response; only part_001, when
\* page.goto has returned a response, prints that response as the requested
\* page instead.
C15_NoDocumentPrintsNoneOrGotoResponse ==
  (variant \in {"p1", "p1B", "appD"} /\ phase = "done" /\ C15_NoDocument) =>
    IF variant = "p1" /\ mainResponse # NoStatus
    THEN /\ Len(chainOut) = 1
         /\ chainOut[1].kind = "requested"
         /\ chainOut[1].status = mainResponse
    ELSE C15_NoInitialResponseLine

\* The second program of app.js has captured two exchanges, none a document,
\* one of them a 403, and has printed.
C15_Witness ==
  /\ variant = "appD"
  /\ phase = "done"
  /\ Len(captured) = 2
  /\ C15_NoDocument
  /\ \E k \in DOMAIN captured : captured[k].status = 403
  /\ mainNavResponse = 0
  /\ C15_NoInitialResponseLine
  /\ Len(printed) = 1

\* ================================== cookie extraction from a headers array
\* part_001, part_002 and the second program of app.js read the Set-Cookie
\* values one per header (headersArray, headerValues).

\* part_001: parseDataDomeFromSetCookie(headersArray); values are the values
\* of the set-cookie headers.  setCookie.parse gives the name, the value and
\* the attributes of each value, as parseSetCookie does for the cookies in
\* use.  <<>> stands for null.
P1_parseDataDomeFromSetCookie(values) ==
  LET parsed == [i \in 1..Len(values) |-> D_parseSetCookie(values[i])]
      isDD(c) == Len(c.name) = 1 /\ ToLower(c.name[1]) = "datadome"
      found == SelectSeq(parsed, isDD)
  IN  IF Len(found) = 0 THEN <<>> ELSE <<found[1]>>

P1_ExtractSetCookie ==
  /\ variant = "p1"
  /\ phase = "header"
  /\ phase' = "extracted"
  /\ ddOut' = P1_parseDataDomeFromSetCookie(setCookieIn.cookies)
  /\ UNCHANGED <<config, reruns, mainResponse, harEntries, now, issued, responded,
                 captured, p1State, p2State, narrative, setCookieIn>>

P2_ExtractSetCookie ==
  /\ variant = "p2"
  /\ phase = "header"
  /\ phase' = "extracted"
  /\ ddOut' = P2_getDataDomeSetCookiesFromHeadersArray(setCookieIn.cookies)
  /\ UNCHANGED <<config, reruns, mainResponse, harEntries, now, issued, responded,
                 captured, p1State, p2State, narrative, setCookieIn>>

InitCookieArray ==
  /\ variant \in {"p1", "p2", "appD"}
  /\ scopeIdx = 0
  /\ runtimeHeaders = TRUE
  /\ phase = "header"
  /\ EmptyRun
  /\ \E cookies \in CookieLists(MaxCookies) \ {<<>>} :
       setCookieIn = SetCookieHeader(cookies, LfSep, "array")
  /\ ddOut = <<>>
  /\ prompt = PromptDone
  /\ wait = WaitOff

NextCookieArray == P1_ExtractSetCookie \/ P2_ExtractSetCookie \/ D_ExtractSetCookie

SpecCookieArray == InitCookieArray /\ [][NextCookieArray]_vars

\* ----------------------------------------------------------------- C16
\* The datadome cookies of the response, in header order.
C16_DatadomeValues ==
  SelectSeq(setCookieIn.cookies, LAMBDA c : ToLower(c[1]) = "datadome")

\* C16: when one response carries several Set-Cookie values for the datadome
\* cookie, the extractor returns all of them, in header order: part_002 the
\* values themselves, part_001 and the second program of app.js their parsed
\* records.
C16_AllDatadomeInHeaderOrder ==
  (phase = "extracted" /\ setCookieIn.form = "array" /\ Len(C16_DatadomeValues) >= 2) =>
    /\ Len(ddOut) = Len(C16_DatadomeValues)
    /\ \A i \in 1..Len(C16_DatadomeValues) :
         i <= Len(ddOut) =>
           ddOut[i] = IF variant = "p2" THEN C16_DatadomeValues[i]
                      ELSE D_parseSetCookie(C16_DatadomeValues[i])

\* ----------------------------------------------------------------- C17
\* C17: in part_001 each response is recorded on the entry its own request
\* created, whatever the order of the responses, also when several requests
\* with the same URL and method are open at once: an entry carries a status
\* only once the response of its own request has come, and then the status
\* and the Set-Cookie headers of that response.
C17_EachResponseOnItsOwnExchange ==
  variant = "p1" =>
    \A id \in DOMAIN byRequestId :
      LET e == captured[byRequestId[id]]
      IN  /\ e.url = issued[id].url
          /\ e.method = issued[id].method
          /\ e.status # NoStatus =>
               /\ id \in responded
               /\ e.status = issued[id].status
               /\ e.resHeaders = issued[id].setCookie
          /\ (id \in responded /\ ~\E a \in awaiting : a.req = id) =>
               e.status = issued[id].status

\* Two requests with the same URL and method were open at once; the response
\* of the second came first and is on the second entry, the first entry is
\* still open.
C17_Witness ==
  /\ variant = "p1"
  /\ Len(issued) = 2
  /\ issued[1].url = issued[2].url
  /\ issued[1].method = issued[2].method
  /\ issued[1].status = 403
  /\ issued[2].status = 200
  /\ DOMAIN byRequestId = {1, 2}
  /\ responded = {2}
  /\ awaiting = {}
  /\ captured[byRequestId[2]].status = 200
  /\ captured[byRequestId[1]].status = NoStatus

\* ----------------------------------------------------------------- C18
\* The lines of "Full network capture" that present the exchange of request id.
C18_Presentations(id) ==
  {k \in DOMAIN printed : printed[k].kind \in {"row", "inline"} /\ printed[k].req = id}

\* C18: in part_001 every exchange of the filtered, ordered list is presented
\* exactly once, as a numbered row or inline under a 403 document, also when
\* two 403 documents are consecutive in the list.
C18_EveryExchangePresentedOnce ==
  (variant = "p1" /\ phase = "done") =>
    LET list == P1_list(captured)
    IN  \A i \in 1..Len(list) : Cardinality(C18_Presentations(list[i].req)) = 1

\* ----------------------------------------------------------------- C19
\* An entry of part_001 whose request has had no response event has no status
\* and no response headers.
C19_UnsetUntilResponse ==
  variant = "p1" =>
    \A k \in DOMAIN captured :
      captured[k].req \notin responded =>
        captured[k].status = NoStatus /\ captured[k].resHeaders = <<>>

\* A step assigns a status only to an entry without one, from the suspended
\* handler of the entry's own request, and leaves the status and the response
\* headers of every entry that has a status as they are.
C19_AssignedOnceStep ==
  variant = "p1" =>
    \A k \in DOMAIN captured :
      /\ k \in DOMAIN captured'
      /\ captured[k].status # NoStatus =>
           /\ captured'[k].status = captured[k].status
           /\ captured'[k].resHeaders = captured[k].resHeaders
      /\ captured'[k].status # captured[k].status =>
           \E a \in awaiting \ awaiting' :
             a.req = captured[k].req /\ captured'[k].status = issued[a.req].status

\* C19: in part_001 the status of an entry is unset from its creation until
\* the response event of its request and is assigned exactly once: no later
\* event changes the status or the response headers of the entry.
C19_StatusAssignedExactlyOnce ==
  []C19_UnsetUntilResponse /\ [][C19_AssignedOnceStep]_vars

\* Both entries have received their status, the second after the first, and
\* each has kept its own.
C19_Witness ==
  /\ variant = "p1"
  /\ phase = "done"
  /\ Len(captured) = 2
  /\ responded = {1, 2}
  /\ awaiting = {}
  /\ captured[1].status = 403 /\ issued[captured[1].req].status = 403
  /\ captured[2].status = 200 /\ issued[captured[2].req].status = 200
  /\ captured[1].url = captured[2].url
  /\ captured[1].resHeaders # <<>>

\* ----------------------------------------------------------------- C20
\* list[i] is a 403 document and list[i + 1] exists and is not on a challenge host.
C20_Is403Document(e) == e.resourceType = "DOCUMENT" /\ e.status = 403
C20_OffChallengeFollower(list, i) ==
  /\ i + 1 <= Len(list)
  /\ C20_Is403Document(list[i])
  /\ list[i + 1].hostname \notin P1_CHALLENGE_HOSTS

\* C20: in part_001, when the exchange that follows a 403 document in the
\* list is not on a challenge host, nothing is shown inline under the 403 row
\* and the follower is printed as a numbered row.
C20_OffChallengeFollowerIsARow ==
  (variant = "p1" /\ phase = "done") =>
    LET list == P1_list(captured)
    IN  \A i \in 1..Len(list) :
          C20_OffChallengeFollower(list, i) =>
            /\ ~\E k \in DOMAIN printed :
                  printed[k].kind = "inline" /\ printed[k].under = list[i].req
            /\ ShownAsRow(list[i + 1].req)

\* C20 (amended): the exchange that follows a 403 document in the list is
\* never a numbered row, whatever its host; when the 403 document has a row
\* of its own (it does not itself follow a 403 document), the follower is
\* shown inline under that row.
C20_FollowerInlineWhateverItsHost ==
  (variant = "p1" /\ phase = "done") =>
    LET list == P1_list(captured)
    IN  \A i \in 1..(Len(list) - 1) :
          C20_Is403Document(list[i]) =>
            /\ ~ShownAsRow(list[i + 1].req)
            /\ (i = 1 \/ ~C20_Is403Document(list[i - 1])) =>
                 \E k \in DOMAIN printed :
                   /\ printed[k].kind = "inline"
                   /\ printed[k].under = list[i].req
                   /\ printed[k].req = list[i + 1].req

\* A 403 document was followed by an exchange of the target's own domain,
\* which is shown inline and not as a row.
C20_Witness ==
  /\ variant = "p1" /\ phase = "done"
  /\ LET list == P1_list(captured)
     IN  /\ Len(list) = 2
         /\ C20_OffChallengeFollower(list, 1)
         /\ list[2].hostname = ApexHost
         /\ ShownInline(list[2].req)
         /\ ~ShownAsRow(list[2].req)

\* ----------------------------------------------------------------- C21
\* Every request part_001 stored has been answered and its handler has resumed.
C21_AllAnswered ==
  /\ awaiting = {}
  /\ DOMAIN byRequestId \subseteq responded

C21_Documents == {k \in DOMAIN captured : captured[k].resourceType = "DOCUMENT"}

\* The first document exchange of the capture list, which is in
\* request-observation order, and the last exchange of the run of documents
\* on the target or a challenge host that immediately follows it.
C21_First == CHOOSE k \in C21_Documents : \A j \in C21_Documents : k <= j
C21_Last ==
  CHOOSE k \in C21_First..Len(captured) :
    /\ \A j \in (C21_First + 1)..k : j \in C21_Documents /\ captured[j].isTarget
    /\ k < Len(captured) =>
         ~(k + 1 \in C21_Documents /\ captured[k + 1].isTarget)

\* C21: the chain part_001 prints under "Initial request & redirects" is the
\* first document exchange in request-observation order followed by the
\* document exchanges on the target or a challenge host that immediately
\* follow it, in that order, whatever the order of the responses.
C21_ChainIsFirstDocumentRun ==
  (variant = "p1" /\ phase = "done" /\ C21_AllAnswered /\ C21_Documents # {}) =>
    /\ Len(chainOut) = C21_Last - C21_First + 1
    /\ \A i \in 1..Len(chainOut) :
         i <= C21_Last - C21_First + 1 =>
           /\ chainOut[i].url = captured[C21_First + i - 1].url
           /\ chainOut[i].status = captured[C21_First + i - 1].status

\* ----------------------------------------------------------------- C22
\* C22: in the second programs, when the idle timer ends the capture (its
\* callback sets finishRequested), no request is in flight and the timer has
\* stood armed for QUIET_MS without a request starting, a request start
\* clearing it; a timer armed while a request is in flight never ends the
\* capture.
C22_IdleTimerEndsOnlyIdleCapture ==
  [][ (wait.stage = "loop" /\ ~wait.finishRequested /\ wait'.finishRequested) =>
        /\ wait.inflight = 0
        /\ wait.idleAt >= 0
        /\ wait.elapsed >= wait.idleAt + QUIET_MS ]_vars

\* ---------------------------------------------------------------------------
\* C23  Handler atomicity.
\* ---------------------------------------------------------------------------

\* The requests whose response event was dispatched in this step.
C23_Dispatched == responded' \ responded

\* C23 (as stated): the changes of a response handler are written in the step
\* that dispatches its event: the record of a tracked request carries the
\* response status as soon as the response event has been dispatched, so no
\* other handler runs between the dispatch and the write.
C23_HandlerWritesAtDispatch ==
  [][ variant = "p1" =>
        \A id \in C23_Dispatched :
          (id \in DOMAIN byRequestId /\ issued[id].fault # "request") =>
            captured'[byRequestId[id]].status = issued[id].status ]_vars

\* C23 (amended): the request handler creates its record in the step that
\* dispatches the event; the response handler writes nothing in the step that
\* dispatches its event and suspends on the header array; its changes (status,
\* header array, append to the initial chain) are written together in one later
\* step, and a step writes the changes of at most one handler.
C23_WritesAreOneLaterStep ==
  [][ variant = "p1" =>
        /\ C23_Dispatched # {} =>
             /\ captured' = captured
             /\ initialChain' = initialChain
        /\ \A r \in DOMAIN issued' \ DOMAIN issued :
             r \in DOMAIN byRequestId' =>
               /\ Len(captured') = Len(captured) + 1
               /\ byRequestId'[r] = Len(captured')
               /\ captured'[Len(captured')].status = NoStatus
        /\ \A k \in DOMAIN captured :
             captured'[k] # captured[k] =>
               /\ \E a \in awaiting \ awaiting' :
                    /\ a.idx = k
                    /\ captured'[k].status = a.status
                    /\ captured'[k].resHeaders = a.arr
                    /\ initialChain' =
                         IF issued[a.req].rt = "document"
                         THEN Append(initialChain, [url |-> issued[a.req].url, status |-> a.status])
                         ELSE initialChain
               /\ \A j \in DOMAIN captured : j # k => captured'[j] = captured[j]
        /\ initialChain' # initialChain => \E k \in DOMAIN captured : captured'[k] # captured[k] ]_vars

\* Two response handlers are suspended at once: the second event was
\* dispatched between the dispatch of the first and the write of its changes.
C23_Witness ==
  /\ variant = "p1"
  /\ phase = "capture"
  /\ Cardinality(awaiting) = 2
  /\ \A a \in awaiting : captured[a.idx].status = NoStatus

\* ---------------------------------------------------------------------------
\* C24  The capture list while the narrative reads it.
\* ---------------------------------------------------------------------------

\* The narrative has read from the capture state and has not printed its last
\* line: part_001 waits for the headers of the main response after it has read
\* initialChain; the second program has selected the main document and
\* persists the session before it prints.
C24_NarrativeReading ==
  \/ variant = "p1" /\ phase = "await_main"
  \/ variant \in {"p1B", "appD"} /\ phase = "closing"

\* C24: once the narrative step has started reading, no handler adds or
\* modifies an Exchange: the capture list and the initial chain stay as the
\* narrative first read them.
C24_CaptureFrozenWhileNarrativeReads ==
  [][ C24_NarrativeReading => (captured' = captured /\ initialChain' = initialChain) ]_vars

\* ---------------------------------------------------------------------------
\* C25  HAR augmentation of the extracted signals.
\* ---------------------------------------------------------------------------

\* Exchanges with the same URL, method and status that differ in the signals
\* they carry: findHarFor may pair the item of one with the HAR entry of
\* another.
HarRequests ==
  LET u == URL(TargetHost, PagePath, <<>>)
  IN  { Req(u, "xhr", "POST", 200),
        [Req(u, "xhr", "POST", 200) EXCEPT !.clientId = "cid"],
        [Req(u, "xhr", "POST", 200) EXCEPT !.clientId = "cid", !.cookie = CookieWithDatadome,
                                           !.setCookie = <<DdCookie(<<>>)>>],
        [Req(u, "xhr", "POST", 200) EXCEPT !.clientId = "cid2",
                                           !.cookie = <<"datadome", "=", "abc">>,
                                           !.setCookie = <<DdCookie(PathAttr), OtherCookie(<<>>)>>],
        [Req(u, "xhr", "POST", 403) EXCEPT !.cookie = <<"datadome", "=", "abc">>] }

InitHar ==
  /\ variant = "app"
  /\ scopeIdx = 0
  /\ runtimeHeaders \in BOOLEAN
  /\ phase = "capture"
  /\ EmptyRun
  /\ setCookieIn = NoSetCookie
  /\ ddOut = <<>>
  /\ prompt = PromptDone
  /\ wait = WaitOff

NextHar ==
  \/ \E r \in HarRequests : Len(issued) < MaxReq /\ App_Request(r)
  \/ \E id \in Unanswered : App_OnResponse(id)
  \/ CloseContext(NoStatus)
  \/ App_Print

SpecHar == InitHar /\ [][NextHar]_vars

\* C25: the three extracted signals of a captured entry only go from absent
\* to present: a step never replaces or clears a request datadome cookie, an
\* x-datadome-clientid or a datadome Set-Cookie list the entry already has,
\* the augmentation from the HAR included.
C25_SignalsOnlyGoFromAbsentToPresent ==
  [][ \A k \in DOMAIN captured :
        /\ k \in DOMAIN captured'
        /\ captured[k].reqCookieDatadome # <<>> =>
             captured'[k].reqCookieDatadome = captured[k].reqCookieDatadome
        /\ captured[k].ddClientId # "" =>
             captured'[k].ddClientId = captured[k].ddClientId
        /\ Len(captured[k].ddSetCookiesRuntime) > 0 =>
             captured'[k].ddSetCookiesRuntime = captured[k].ddSetCookiesRuntime ]_vars

\* After the augmentation: the first item was paired with the HAR entry of
\* the other exchange, which carries another client id; the item kept its own
\* client id and received the cookie the runtime had not exposed.
C25_Witness ==
  /\ variant = "app"
  /\ phase = "done"
  /\ ~runtimeHeaders
  /\ Len(captured) = 2
  /\ captured[1].req = 2
  /\ harEntries[1].used
  /\ harEntries[1].e.clientId # ""
  /\ captured[1].ddClientId \notin {"", harEntries[1].e.clientId}
  /\ captured[1].reqCookieDatadome = App_matchDatadome(harEntries[1].e.cookie)
  /\ captured[1].reqCookieDatadome # <<>>

\* ---------------------------------------------------------------------------
\* C26  Numbers of the printed rows.
\* ---------------------------------------------------------------------------

\* C26: whatever the scope policy and whatever was removed by the scope filter
\* or shown inline, the numbered rows of the printed capture list carry the
\* numbers 1, 2, ..., n in this order.
C26_RowsNumberedConsecutively ==
  phase = "done" => \A k \in DOMAIN NumberedRows : NumberedRows[k].no = k

\* ---------------------------------------------------------------------------
\* C27  The three scope policies on a URL off the challenge hosts.
\* ---------------------------------------------------------------------------

\* The URLs of the run that are not on a challenge host.
C27_Urls ==
  {issued[i].url : i \in {j \in DOMAIN issued : issued[j].url.host \notin App_DD_HOSTS \cup {GeoHost}}}

C27_AppExactlyOne(u) ==
  /\ App_matchesScope(u, 0) # App_matchesScope(u, 1)
  /\ App_matchesScope(u, 2)

C27_P2ExactlyOne(u) ==
  /\ P2_inScope([url |-> u], 0) # P2_inScope([url |-> u], 1)
  /\ P2_inScope([url |-> u], 2)

\* C27 (as stated): every URL off the challenge hosts, a URL that fails to
\* parse included, is included by exactly one of the same-domain and
\* cross-origin policies and by the any-origin policy.
C27_ExactlyOnePolicyIncludes ==
  \A u \in C27_Urls :
    /\ variant = "app" => C27_AppExactlyOne(u)
    /\ variant = "p2" => C27_P2ExactlyOne(u)

\* C27 (amended): in app.js every URL off the challenge hosts is included by
\* exactly one of the two policies, a URL that fails to parse by the
\* cross-origin one; in part_002 this holds for the URLs that parse, and a URL
\* that fails to parse is included by neither; the any-origin policy includes
\* every URL.
C27_ExactlyOnePolicyIncludesParsable ==
  \A u \in C27_Urls :
    /\ variant = "app" =>
         /\ C27_AppExactlyOne(u)
         /\ Malformed(u) => App_matchesScope(u, 1)
    /\ variant = "p2" =>
         /\ ~Malformed(u) => C27_P2ExactlyOne(u)
         /\ Malformed(u) =>
              /\ ~P2_inScope([url |-> u], 0)
              /\ ~P2_inScope([url |-> u], 1)
              /\ P2_inScope([url |-> u], 2)

\* part_002 under the cross-origin policy has recorded an exchange whose URL
\* does not parse and has printed the list without it.
C27_Witness ==
  /\ variant = "p2"
  /\ scopeIdx = 1
  /\ phase = "done"
  /\ \E k \in DOMAIN captured : captured[k].url = BadURL
  /\ \A k \in DOMAIN printed : printed[k].kind = "row" => printed[k].url # BadURL

\* ---------------------------------------------------------------------------
\* C28  Challenge labels.
\* ---------------------------------------------------------------------------

\* Documents and XHRs whose URL holds a challenge segment: on the challenge
\* host at the start of the path, on the target host at the start of the path,
\* on the target host further down the path; and two with no such segment.
TagRequests ==
  { Req(URL(GeoHost,    CaptchaPath, <<>>),       "document", "GET",  200),
    Req(URL(GeoHost,    InterstitialPath, <<>>),  "document", "GET",  200),
    Req(URL(GeoHost,    PagePath, <<>>),          "xhr",      "POST", 200),
    Req(URL(TargetHost, CaptchaPath, <<>>),       "document", "GET",  200),
    Req(URL(TargetHost, NestedCaptchaPath, <<>>), "xhr",      "GET",  200),
    Req(URL(TargetHost, PagePath, <<>>),          "document", "GET",  403) }

InitTag ==
  /\ variant \in PromptVariants
  /\ scopeIdx = (IF variant \in {"app", "p2"} THEN 2 ELSE 0)
  /\ runtimeHeaders = TRUE
  /\ phase = "capture"
  /\ EmptyRun
  /\ setCookieIn = NoSetCookie
  /\ ddOut = <<>>
  /\ prompt = PromptDone
  /\ wait = WaitOff

NextTag ==
  \/ \E r \in TagRequests : Len(issued) < MaxReq /\ P1_OnRequest(r, 0)
  \/ \E id \in Unanswered : P1_OnResponse(id)
  \/ \E a \in awaiting : P1_OnResponseResume(a)
  \/ \E r \in TagRequests : Len(issued) < MaxReq /\ App_Request(r)
  \/ \E id \in Unanswered : App_OnResponse(id)
  \/ \E r \in TagRequests : Len(issued) < MaxReq /\ P2_OnRequest(r)
  \/ \E id \in Unanswered : P2_OnResponse(id)
  \/ \E r \in TagRequests : Len(issued) < MaxReq /\ D_Request(r)
  \/ \E id \in Unanswered : D_OnResponse(id, FALSE)
  \/ \E a \in awaiting : D_OnResponseResume(a, 0)
  \/ CloseContext(NoStatus)
  \/ D_EndCapture
  \/ P1_Print
  \/ App_Print
  \/ P2_Print
  \/ D_Print

SpecTag == InitTag /\ [][NextTag]_vars

\* The challenge label an entry carries, "" for none.
C28_Label(e) ==
  CASE variant = "p1"  -> e.tag
    [] variant = "app" -> e.ddLabel
    [] variant = "p2"  -> e.geoType
    [] OTHER           -> e.ddPhase

C28_ChallengeHosts == {GeoHost, DeliveryDomain}

\* C28: an exchange carries the label Device Check or CAPTCHA/BLOCK only if
\* its host is a challenge host and its path begins with /interstitial or
\* /captcha respectively; on another host, or with the segment elsewhere in
\* the URL, it carries no such label.
C28_LabelOnlyOnChallengeHostAndPath ==
  \A k \in DOMAIN captured :
    LET e == captured[k] IN
      /\ C28_Label(e) = "Device Check" =>
           e.url.host \in C28_ChallengeHosts /\ PathBeginsWith(e.url, "interstitial")
      /\ C28_Label(e) = "CAPTCHA/BLOCK" =>
           e.url.host \in C28_ChallengeHosts /\ PathBeginsWith(e.url, "captcha")

\* ---------------------------------------------------------------------------
\* C29  The static-asset decision and the parts of the URL.
\* ---------------------------------------------------------------------------

\* XHRs and documents with the same path and another host or query string;
\* one query string ends in a listed extension.
StaticQuery == <<"f", "=", "a", ".css">>
PlainQuery  == <<"v", "=", "1">>
StaticRequests ==
  { Req(URL(TargetHost, PagePath, <<>>),          "xhr",      "GET", 200),
    Req(URL(TargetHost, PagePath, StaticQuery),   "xhr",      "GET", 200),
    Req(URL(ApexHost,   PagePath, PlainQuery),    "document", "GET", 200),
    Req(URL(TargetHost, AssetPath, <<>>),         "xhr",      "GET", 200),
    Req(URL(TargetHost, AssetPath, PlainQuery),   "document", "GET", 200) }

NextStatic ==
  \/ \E r \in StaticRequests, d \in 0..1 : Len(issued) < MaxReq /\ P1_OnRequest(r, d)
  \/ \E id \in Unanswered : P1_OnResponse(id)
  \/ \E a \in awaiting : P1_OnResponseResume(a)
  \/ \E r \in StaticRequests : Len(issued) < MaxReq /\ App_Request(r)
  \/ \E id \in Unanswered : App_OnResponse(id)
  \/ \E r \in StaticRequests : Len(issued) < MaxReq /\ P2_OnRequest(r)
  \/ \E id \in Unanswered : P2_OnResponse(id)
  \/ \E mr \in Statuses \cup {NoStatus} : CloseContext(mr)
  \/ P1_Print
  \/ P1_PrintCapture
  \/ App_Print
  \/ P2_Print

SpecStatic == Init /\ [][NextStatic]_vars

\* The static-asset decision of the program that runs.
C29_Static(u) ==
  CASE variant = "p1"  -> P1_isStaticAsset(u)
    [] variant = "app" -> App_isStatic(u)
    [] OTHER           -> P2_isStaticAsset(u)

\* C29: two URLs of the run with the same path get the same static-asset
\* decision whatever their host and query string, and an answered document,
\* XHR or fetch in scope whose path is not static is recorded.
C29_StaticDecisionDependsOnPathOnly ==
  /\ \A i, j \in DOMAIN issued :
       issued[i].url.path = issued[j].url.path =>
         C29_Static(issued[i].url) = C29_Static(issued[j].url)
  /\ variant = "app" =>
       \A i \in responded :
         ( /\ issued[i].rt \in App_LOG_TYPES
           /\ App_matchesScope(issued[i].url, scopeIdx)
           /\ issued[i].url.path[Len(issued[i].url.path)] \notin StaticExt )
         => \E k \in DOMAIN captured : captured[k].req = i

\* ---------------------------------------------------------------------------
\* C30  The name of the cookies the Set-Cookie extractor returns.
\* ---------------------------------------------------------------------------

\* Set-Cookie values whose name is datadome in either case, whose name ends
\* with that text, whose value or attribute holds "datadome=", and one whose
\* name=value part has no "=".
NameCookiePool ==
  { DdCookie(PathAttr),
    <<"DataDome", "=", "xyz">>,
    <<"xdatadome", "=", "1">>,
    <<"other", "=", "datadome", "=", "1">>,
    <<"other", "=", "1", ";", " ", "datadome", "=", "2">>,
    <<"datadome", ";", " ", "Path", "=", "/">> }

InitCookieName ==
  /\ variant \in {"app", "appD", "p2"}
  /\ scopeIdx = 0
  /\ runtimeHeaders = TRUE
  /\ phase = "header"
  /\ EmptyRun
  /\ \E c, d \in NameCookiePool :
       \/ setCookieIn = SetCookieHeader(<<c>>, LfSep, "array")
       \/ setCookieIn = SetCookieHeader(<<c, d>>, LfSep, "array")
  /\ ddOut = <<>>
  /\ prompt = PromptDone
  /\ wait = WaitOff

NextCookieName == App_ExtractSetCookie \/ D_ExtractSetCookie \/ P2_ExtractSetCookie

SpecCookieName == InitCookieName /\ [][NextCookieName]_vars

\* The name of a returned cookie: the parsed name in the second program of
\* app.js, the text before the first "=" of the first segment elsewhere
\* (<<>> when that segment has no "=").
C30_Name(c) ==
  IF variant = "appD" THEN c.name
  ELSE LET first == SplitTok(c, ";")[1]
           eq    == IndexOfEq(first)
       IN  IF eq <= 1 THEN <<>> ELSE Trim(SubSeq(first, 1, eq - 1))

\* C30: every cookie the extractor returns is named datadome, in any case.
C30_ReturnedCookiesAreNamedDatadome ==
  phase = "extracted" =>
    \A i \in DOMAIN ddOut :
      Len(C30_Name(ddOut[i])) = 1 /\ ToLower(C30_Name(ddOut[i])[1]) = "datadome"

\* ---------------------------------------------------------------------------
\* C31  The request cookie reported for an exchange.
\* ---------------------------------------------------------------------------

\* Cookie: xdatadome=1; datadome=xyz
CookieWithLookalikeFirst ==
  <<"xdatadome", "=", "1", ";", " ", "datadome", "=", "xyz">>
\* Cookie: xdatadome=1
CookieLookalikeOnly == <<"xdatadome", "=", "1">>
\* Cookie: datadome=a=b; sid=1
CookieValueWithEq == <<"datadome", "=", "a", "=", "b", ";", " ", "sid", "=", "1">>

\* XHRs of the target site, one URL per Cookie header.
ReqCookieRequests ==
  { [Req(URL(TargetHost, PagePath, <<>>),          "xhr", "GET", 200)
       EXCEPT !.cookie = CookieWithDatadome],
    [Req(URL(TargetHost, CaptchaPath, <<>>),       "xhr", "GET", 200)
       EXCEPT !.cookie = CookieWithLookalikeFirst],
    [Req(URL(TargetHost, InterstitialPath, <<>>),  "xhr", "GET", 200)
       EXCEPT !.cookie = CookieLookalikeOnly],
    [Req(URL(TargetHost, NestedCaptchaPath, <<>>), "xhr", "GET", 200)
       EXCEPT !.cookie = CookieValueWithEq] }

NextReqCookie ==
  \/ \E r \in ReqCookieRequests, d \in 0..1 : Len(issued) < MaxReq /\ P1_OnRequest(r, d)
  \/ \E id \in Unanswered : P1_OnResponse(id)
  \/ \E a \in awaiting : P1_OnResponseResume(a)
  \/ \E r \in ReqCookieRequests : Len(issued) < MaxReq /\ App_Request(r)
  \/ \E id \in Unanswered : App_OnResponse(id)
  \/ \E r \in ReqCookieRequests : Len(issued) < MaxReq /\ P2_OnRequest(r)
  \/ \E id \in Unanswered : P2_OnResponse(id)
  \/ \E mr \in Statuses \cup {NoStatus} : CloseContext(mr)
  \/ P1_Print
  \/ App_Print
  \/ P2_Print

SpecReqCookie == Init /\ [][NextReqCookie]_vars

\* The value of the cookie named exactly datadome in a Cookie header: what
\* follows the first "=" of the first segment whose trimmed name is datadome
\* (<<>> when there is none).
C31_DatadomeValue(hdr) ==
  LET parts == SplitTok(hdr, ";")
      S == {i \in 1..Len(parts) :
              LET p == Trim(parts[i])
              IN  Len(p) >= 2 /\ ToLower(p[1]) = "datadome" /\ p[2] = "="}
  IN  IF Len(hdr) = 0 \/ S = {} THEN <<>>
      ELSE LET p == Trim(parts[CHOOSE i \in S : \A j \in S : i <= j])
           IN  SubSeq(p, 3, Len(p))

\* The value a printed row reports: part_001 prints the value, app.js and
\* part_002 print name=value.
C31_Reported(row) ==
  IF variant = "p1" THEN row.reqCookie
  ELSE IF Len(row.reqCookie) >= 2 THEN SubSeq(row.reqCookie, 3, Len(row.reqCookie))
  ELSE <<>>

\* C31: a row that reports a request cookie reports the full value of the
\* cookie named exactly datadome of the request's Cookie header, never the
\* value of a cookie whose name ends in datadome.
C31_ReportsTheCookieNamedDatadome ==
  phase = "done" =>
    \A k \in DOMAIN NumberedRows :
      LET row == NumberedRows[k] IN
        row.reqCookie # <<>> =>
          /\ C31_DatadomeValue(issued[row.req].cookie) # <<>>
          /\ C31_Reported(row) = C31_DatadomeValue(issued[row.req].cookie)

\* ---------------------------------------------------------------------------
\* C32  What is attached under a blocked exchange.
\* ---------------------------------------------------------------------------

\* A blocked document, a blocked XHR, challenge documents (one of them
\* answered 403) and a plain XHR.
IncidentRequests ==
  { Req(URL(TargetHost, PagePath, <<>>),         "document", "GET",  403),
    Req(URL(TargetHost, PagePath, <<>>),         "xhr",      "POST", 403),
    Req(URL(TargetHost, PagePath, <<>>),         "xhr",      "GET",  200),
    Req(URL(GeoHost,    CaptchaPath, <<>>),      "document", "GET",  403),
    Req(URL(GeoHost,    InterstitialPath, <<>>), "document", "GET",  200) }

NextIncident ==
  \/ \E r \in IncidentRequests, d \in 0..1 : Len(issued) < MaxReq /\ P1_OnRequest(r, d)
  \/ \E id \in Unanswered : P1_OnResponse(id)
  \/ \E a \in awaiting : P1_OnResponseResume(a)
  \/ \E mr \in Statuses \cup {NoStatus} : CloseContext(mr)
  \/ P1_Print
  \/ P1_PrintCapture
  \/ \E r \in IncidentRequests : Len(issued) < MaxReq /\ D_Request(r)
  \/ \E id \in Unanswered, main \in BOOLEAN : D_OnResponse(id, main)
  \/ \E a \in awaiting, d \in 0..1 : D_OnResponseResume(a, d)
  \/ D_EndCapture
  \/ D_Print

SpecIncident == InitNav /\ [][NextIncident]_vars

\* The printed lines attached under another exchange.
C32_Attached == {k \in DOMAIN printed : printed[k].kind \in {"inline", "step"}}

C33_Entry(id) == captured[IndexOfReq(captured, id)]
C33_IsDocument(e) ==
  IF variant = "p1" THEN e.resourceType = "DOCUMENT" ELSE e.type = "document"

\* C33 (as stated): an exchange with another exchange attached under it is a
\* document with status 403.
C33_OnlyBlockedDocumentsGetSteps ==
  phase = "done" =>
    \A k \in C32_Attached :
      /\ C33_IsDocument(C33_Entry(printed[k].under))
      /\ C33_Entry(printed[k].under).status = 403

\* C33 (amended): in both programs of part_001 only a document with status
\* 403 gets an exchange attached under it; in the second program of app.js
\* every document, XHR or fetch entry with status 403 other than the main
\* document is an incident and gets the challenge steps attached.
C33_BlockedExchangesThatGetSteps ==
  phase = "done" =>
    /\ variant \in {"p1", "p1B"} =>
         \A k \in C32_Attached :
           /\ C33_IsDocument(C33_Entry(printed[k].under))
           /\ C33_Entry(printed[k].under).status = 403
    /\ variant = "p1B" =>
         \A k \in C32_Attached : printed[k].under = captured[mainNavResponse].req
    /\ variant = "appD" =>
         /\ \A k \in C32_Attached :
              /\ C33_Entry(printed[k].under).status = 403
              /\ C33_Entry(printed[k].under).type \in D_ALLOWED_TYPES
              /\ mainNavResponse # 0 => printed[k].under # captured[mainNavResponse].req
         /\ \A c \in DOMAIN captured :
              ( /\ captured[c].status = 403
                /\ captured[c].type \in D_ALLOWED_TYPES
                /\ c # mainNavResponse )
              => \E i \in DOMAIN printed :
                   printed[i].kind = "incident" /\ printed[i].req = captured[c].req

\* The second program of app.js has printed a challenge step under a blocked
\* XHR.
C33_Witness ==
  /\ variant = "appD"
  /\ phase = "done"
  /\ \E k \in C32_Attached :
       /\ C33_Entry(printed[k].under).type = "xhr"
       /\ C33_Entry(printed[k].under).status = 403

\* ---------------------------------------------------------------------------
\* C34  Closing the context and the browser.
\* ---------------------------------------------------------------------------

running == <<variant, scopeIdx, runtimeHeaders, mainNavResponse, prompt, wait, phase, now,
             issued, responded, captured, p1State, p2State, narrative, mainResponse,
             harEntries, reruns, extraction>>

\* The finish policy has ended the capture.
Shut_FinishCapture ==
  /\ shutdown.pc = "capture"
  /\ shutdown' = [shutdown EXCEPT !.pc = "cookies"]
  /\ UNCHANGED running

\* The snapshot without its try/catch: a failure ends the run.
Shut_PersistCookies_unguarded(ok) ==
  /\ shutdown.pc = "cookies"
  /\ shutdown' = [shutdown EXCEPT
       !.cookies = IF ok THEN "saved" ELSE "failed",
       !.cookiesWhileOpen = shutdown.contextOpen,
       !.topLevelError = IF ok THEN @ ELSE "context.cookies",
       !.pc = IF ~ok THEN "exit" ELSE IF variant = "p2" THEN "page" ELSE "context"]
  /\ UNCHANGED running

\* try { context.cookies(); write the file } catch {}: ok is whether the
\* snapshot succeeds.
Shut_PersistCookies(ok) ==
  /\ shutdown.pc = "cookies"
  /\ shutdown' = [shutdown EXCEPT
       !.cookies = IF ok THEN "saved" ELSE "failed",
       !.cookiesWhileOpen = shutdown.contextOpen,
       !.pc = IF variant = "p2" THEN "page" ELSE "context"]
  /\ UNCHANGED running

\* part_002: try { await page.close({ runBeforeUnload: false }) } catch {}
Shut_ClosePage(ok) ==
  /\ variant = "p2"
  /\ shutdown.pc = "page"
  /\ shutdown' = [shutdown EXCEPT !.pc = "context"]
  /\ UNCHANGED running

\* await context.close(): inside try/catch in part_001 and part_002, with
\* .catch in the second programs, bare in the first program of app.js.
Shut_CloseContext(ok) ==
  /\ shutdown.pc = "context"
  /\ shutdown' = [shutdown EXCEPT
       !.contextOpen = FALSE,
       !.contextCloses = @ + 1,
       !.topLevelError = IF variant = "app" /\ ~ok THEN "context.close" ELSE @,
       !.pc = CASE variant = "app" /\ ~ok -> "exit"
                [] variant \in {"app", "p2"} -> "browser"
                [] variant = "p1" -> "narrative"
                [] OTHER -> "har"]
  /\ UNCHANGED running

\* await browser.close(): before the narrative in app.js (bare) and part_002
\* (try/catch), after it in the second programs (.catch); the first program
\* of part_001 has no such call.
Shut_CloseBrowser(ok) ==
  /\ \/ variant \in {"app", "p2"} /\ shutdown.pc = "browser"
     \/ variant \in {"p1B", "appD"} /\ shutdown.pc = "browserEnd"
  /\ shutdown' = [shutdown EXCEPT
       !.browserClosed = TRUE,
       !.topLevelError = IF variant = "app" /\ ~ok THEN "browser.close" ELSE @,
       !.pc = CASE variant = "app" /\ ~ok -> "exit"
                [] variant = "app" -> "har"
                [] variant = "p2" -> "narrative"
                [] OTHER -> "done"]
  /\ UNCHANGED running

\* app.js: try { readFileSync(harPath) ... } catch {}; second programs:
\* if (fs.existsSync(harTemp)) fs.renameSync(harTemp, harFinal).  ok is
\* whether the file is there.
Shut_Har(ok) ==
  /\ variant \in {"app", "p1B", "appD"}
  /\ shutdown.pc = "har"
  /\ shutdown' = [shutdown EXCEPT
       !.har = IF ~ok THEN "missing" ELSE IF variant = "app" THEN "read" ELSE "renamed",
       !.harAfterClose = ~shutdown.contextOpen,
       !.pc = "narrative"]
  /\ UNCHANGED running

\* The printing section.  part_001 may read the headers of the main response
\* of the closed context inside safeHeadersArray, which catches the error
\* (ok: the read succeeds).
Shut_Narrative(ok) ==
  /\ shutdown.pc = "narrative"
  /\ shutdown' = [shutdown EXCEPT
       !.narrative = TRUE,
       !.lateAccess = IF variant = "p1" /\ ~ok THEN "caught" ELSE @,
       !.pc = IF variant \in {"p1B", "appD"} THEN "browserEnd" ELSE "done"]
  /\ UNCHANGED running

\* A response handler runs after the context was closed; its access throws
\* inside the try/catch that wraps the body of every response handler.
Shut_LateHandler ==
  /\ ~shutdown.contextOpen
  /\ shutdown.pc \notin {"done", "exit"}
  /\ shutdown.lateAccess = "none"
  /\ shutdown' = [shutdown EXCEPT !.lateAccess = "caught"]
  /\ UNCHANGED running

InitShutdown ==
  /\ variant \in PromptVariants
  /\ scopeIdx = 0
  /\ runtimeHeaders = TRUE
  /\ phase = "capture"
  /\ EmptyRun
  /\ setCookieIn = NoSetCookie
  /\ ddOut = <<>>
  /\ prompt = PromptDone
  /\ wait = WaitOff

NextShutdown ==
  \/ Shut_FinishCapture
  \/ \E ok \in BOOLEAN : Shut_PersistCookies(ok)
  \/ \E ok \in BOOLEAN : Shut_ClosePage(ok)
  \/ \E ok \in BOOLEAN : Shut_CloseContext(ok)
  \/ \E ok \in BOOLEAN : Shut_CloseBrowser(ok)
  \/ \E ok \in BOOLEAN : Shut_Har(ok)
  \/ \E ok \in BOOLEAN : Shut_Narrative(ok)
  \/ Shut_LateHandler

SpecShutdown == InitShutdown /\ [][NextShutdown]_vars

\* C34: a run that has reached its final output has closed the context
\* exactly once and the browser, and no access after the close has reached
\* the top-level error handler.
C34_ContextAndBrowserClosed ==
  shutdown.pc = "done" =>
    /\ shutdown.contextCloses = 1
    /\ shutdown.browserClosed
    /\ shutdown.topLevelError = "none"

\* C35: the cookie snapshot is taken while the context is open, the HAR is
\* read or renamed only after the context was closed, and a failed snapshot
\* neither ends the run nor keeps the close and the narrative from happening.
C35_SnapshotBeforeCloseHarAfter ==
  /\ shutdown.cookies # "none" => shutdown.cookiesWhileOpen
  /\ shutdown.har # "none" => shutdown.harAfterClose /\ shutdown.contextCloses = 1
  /\ shutdown.topLevelError # "none" => shutdown.contextCloses = 1
  /\ shutdown.cookies = "failed" /\ shutdown.pc = "done" =>
       shutdown.contextCloses = 1 /\ shutdown.narrative

C35_Witness ==
  /\ shutdown.cookies = "failed"
  /\ shutdown.har \in {"read", "renamed"}
  /\ shutdown.narrative
  /\ shutdown.pc = "done"

\* ---------------------------------------------------------------------------
\* C36  One HAR entry per captured item, one captured item per HAR entry.
\* ---------------------------------------------------------------------------

\* The pairs the augmentation of the final state has made: findHarFor reads
\* the url, method and status of an item, which the augmentation leaves alone.
C36_Pairs == App_pairing(captured, App_readHar(HarFile), 1)

\* C36: no HAR entry is returned for two captured items, no captured item
\* receives two HAR entries, and the entries marked used are the ones that
\* were returned.
C36_EntriesAndItemsPairedOneToOne ==
  variant = "app" /\ phase = "done" =>
    /\ \A a, b \in DOMAIN C36_Pairs :
         a # b => C36_Pairs[a].har # C36_Pairs[b].har /\ C36_Pairs[a].item # C36_Pairs[b].item
    /\ {h \in DOMAIN harEntries : harEntries[h].used} =
         {C36_Pairs[a].har : a \in DOMAIN C36_Pairs}
    /\ Cardinality({h \in DOMAIN harEntries : harEntries[h].used}) = Len(C36_Pairs)

\* Two captured items with the same URL, method and status, each paired with
\* an entry of its own.
C36_Witness ==
  /\ variant = "app"
  /\ phase = "done"
  /\ Len(captured) = 2
  /\ captured[1].url = captured[2].url
  /\ captured[1].method = captured[2].method
  /\ captured[1].status = captured[2].status
  /\ Len(C36_Pairs) = 2
  /\ harEntries[1].used /\ harEntries[2].used

\* ---------------------------------------------------------------------------
\* C37  The relaxed fallback of findHarFor and the exact match of a later item.
\* ---------------------------------------------------------------------------

\* findHarFor over every capture list and every HAR: the HAR is a file the
\* program reads back, and the fallback that ignores the status exists for a
\* HAR whose statuses are not those the response handler saw.  The items and
\* the entries share one URL and one method and differ in status.
HarMatchUrl == URL(TargetHost, PagePath, <<>>)

HarMatchItems ==
  { App_entry(0, Req(HarMatchUrl, "xhr", "POST", st), st, FALSE) : st \in {200, 403} }

HarMatchEntries ==
  { [Req(HarMatchUrl, "xhr", "POST", st) EXCEPT !.clientId = c] :
      st \in {200, 403}, c \in {"", "cid"} }

SeqsUpTo(S, n) == UNION { [1..k -> S] : k \in 0..n }

InitHarMatch ==
  /\ variant = "app"
  /\ scopeIdx = 0
  /\ runtimeHeaders = FALSE
  /\ phase = "closed"
  /\ setCookieIn = NoSetCookie
  /\ ddOut = <<>>
  /\ prompt = PromptDone
  /\ wait = WaitOff
  /\ shutdown = ShutdownOff
  /\ now = 0
  /\ issued \in SeqsUpTo(HarMatchEntries, MaxReq)
  /\ responded = DOMAIN issued
  /\ \E items \in SeqsUpTo(HarMatchItems, MaxReq) :
       captured = [k \in DOMAIN items |-> [items[k] EXCEPT !.req = k]]
  /\ byRequestId = <<>>
  /\ awaiting = {}
  /\ initialChain = <<>>
  /\ initialDocumentRequest = 0
  /\ requestBodies = {}
  /\ counter = 0
  /\ inlinedAfter403 = {}
  /\ main403Idx = -1
  /\ chainOut = <<>>
  /\ printed = <<>>
  /\ mainResponse = NoStatus
  /\ harEntries = <<>>
  /\ runs = 0
  /\ firstOut = [chain |-> <<>>, capture |-> <<>>]
  /\ mainNavResponse = 0

NextHarMatch == App_Print

SpecHarMatch == InitHarMatch /\ [][NextHarMatch]_vars

C38_Listed(kind) == {printed[i].req : i \in {j \in DOMAIN printed : printed[j].kind = kind}}

C38_MainPrintedOnce ==
  /\ chainOut = <<[kind |-> "requested", url |-> captured[mainNavResponse].url,
                   status |-> captured[mainNavResponse].status]>>
  /\ captured[mainNavResponse].req \notin C38_Listed("incident") \cup C38_Listed("sub")

\* C38 as stated: the main document entry is printed once as "Requested" and
\* is in neither list, and every other captured entry is in the
\* subsequent-request list.
C38_EveryOtherEntryIsSubsequent ==
  variant = "appD" /\ phase = "done" /\ mainNavResponse # 0 =>
    /\ C38_MainPrintedOnce
    /\ \A k \in DOMAIN captured :
         k # mainNavResponse => captured[k].req \in C38_Listed("sub")

\* C38, amended: the main document entry is printed once as "Requested" and
\* is in neither list; another captured entry is in the subsequent-request
\* list exactly when it was recorded no earlier than the main document entry,
\* which is the last main-frame document.
C38_EntriesFromMainOnAreSubsequent ==
  variant = "appD" /\ phase = "done" /\ mainNavResponse # 0 =>
    /\ C38_MainPrintedOnce
    /\ \A k \in DOMAIN captured :
         k # mainNavResponse =>
           (captured[k].req \in C38_Listed("sub")
              <=> captured[k].ts >= captured[mainNavResponse].ts)

\* The main frame navigated twice: the first document was recorded before
\* the last one and is not in the subsequent-request list.
C38_Witness ==
  /\ variant = "appD"
  /\ phase = "done"
  /\ Len(captured) = 2
  /\ captured[1].isMain /\ captured[2].isMain
  /\ mainNavResponse = 2
  /\ captured[1].ts < captured[2].ts
  /\ C38_Listed("sub") = {}

\* ---------------------------------------------------------------------------
\* C39  The in-flight counter and the idle timer of the second programs.
\* ---------------------------------------------------------------------------

\* A step of page.on('request').
C39_RequestEvent == wait.stage = "loop" /\ wait'.inflight = wait.inflight + 1

\* C39: the in-flight counter is never negative, at most one idle timer is
\* pending, and a request event leaves no idle timer pending.
C39_CounterAndSingleTimer ==
  /\ [](wait.inflight >= 0 /\ wait.timers \in {0, 1})
  /\ [][C39_RequestEvent => wait'.timers = 0 /\ wait'.idleAt = -1]_vars

\* A request finished while the timer armed after the navigation was still
\* pending: the timer was re-armed and is the only one.
C39_Witness ==
  /\ wait.stage = "loop"
  /\ wait.inflight = 0
  /\ wait.idleAt > 0
  /\ wait.idleAt < QUIET_MS
  /\ wait.timers = 1

====
